---- MODULE Spec2Model ----
(***************************************************************************)
(* Checkpoint-and-resume subsystem of the paper analysis pipeline:         *)
(* the identifier resolver, the snapshot store and the consistency         *)
(* verifier of utils/checkpoint.py, and the stage state machine of         *)
(* graph/workflow.py (run_workflow, resume_workflow, the LangGraph graph   *)
(* built by create_workflow) as driven by main.py.                         *)
(*                                                                         *)
(* Abstractions.  Free text (structure, answers, report) is a token; only  *)
(* its emptiness is kept.  A question list is the sequence 1..k.  Time is  *)
(* a tick counter: a file's mtime is the tick of its last write, and the   *)
(* "%Y%m%d_%H%M%S" timestamp of a file name is the tick divided by         *)
(* TicksPerSecond.                                                         *)
(***************************************************************************)
EXTENDS Integers, Sequences, FiniteSets, Bags, TLC

\* ------------------------------------------------------------------------
\* Bounds of the model
\* ------------------------------------------------------------------------
MaxQuestions == 3
MaxClock == 3
MaxSaves == 3
MaxRuns == 2
TicksPerSecond == 2
MaxDays == 2
MaxSwept == 2

\* ------------------------------------------------------------------------
\* Values
\* ------------------------------------------------------------------------
\* Python's None for a string-valued and for an integer-valued setting
NoneStr == "<None>"
NoneInt == -1

\* .get('num_questions', 3), .get('total_questions', 3)
DefaultQuestions == 3

Min(a, b) == IF a < b THEN a ELSE b

\* ------------------------------------------------------------------------
\* Subjects: the input files.  A path stands for the file name and for the
\* text parse_pdf extracts from it.
\* ------------------------------------------------------------------------
PathVersioned == "in/2510.19555v2.pdf"
PathBare == "in/2510.19555.pdf"
PathContent == "in/draft.pdf"
PathPlainA == "in/notes_a.pdf"
PathPlainB == "in/notes_b.pdf"
\* a second spelling of PathPlainA, relative to the same working directory
PathPlainAlias == "./in/notes_a.pdf"

Paths == {PathVersioned, PathBare, PathContent, PathPlainA, PathPlainB, PathPlainAlias}

\* the match of ARXIV_ID_PATTERN in the base name: group(1), group(2)
FilenameMatch(paper_path) ==
    CASE paper_path = PathVersioned -> [found |-> TRUE, id |-> "2510.19555", version |-> "v2"]
      [] paper_path = PathBare -> [found |-> TRUE, id |-> "2510.19555", version |-> ""]
      [] OTHER -> [found |-> FALSE, id |-> "", version |-> ""]

\* the text of the paper; only the arXiv marker of its first page is kept
ParsePdf(paper_path) ==
    CASE paper_path = PathContent -> [empty |-> FALSE, marker |-> "arXiv:", id |-> "2401.00001", version |-> "v3"]
      [] paper_path = PathVersioned -> [empty |-> FALSE, marker |-> "arxiv.org/abs/", id |-> "2510.19555", version |-> "v2"]
      [] OTHER -> [empty |-> FALSE, marker |-> "", id |-> "", version |-> ""]

\* paper_content = "" as passed by the lookups
NoContent == [empty |-> TRUE, marker |-> "", id |-> "", version |-> ""]

\* identifiers: an arXiv ID with version, or custom_N
ArxivId(id, version) == [kind |-> "arxiv", id |-> id, version |-> version, n |-> 0]
CustomId(n) == [kind |-> "custom", id |-> "", version |-> "", n |-> n]
NoId == [kind |-> "none", id |-> "", version |-> "", n |-> 0]

\* os.path.abspath: both spellings of one file normalise to one path
Abspath(path) == IF path = PathPlainAlias THEN PathPlainA ELSE path

extract_arxiv_id_from_filename(paper_path) ==
    LET m == FilenameMatch(paper_path)
    IN  IF m.found
        THEN IF m.version # "" THEN ArxivId(m.id, m.version) ELSE ArxivId(m.id, "v1")
        ELSE NoId

\* the first pattern captures an optional version, the second never does
extract_arxiv_id_from_content(paper_content) ==
    CASE paper_content.empty -> NoId
      [] paper_content.marker = "arXiv:" ->
            IF paper_content.version # ""
            THEN ArxivId(paper_content.id, paper_content.version)
            ELSE ArxivId(paper_content.id, "v1")
      [] paper_content.marker = "arxiv.org/abs/" -> ArxivId(paper_content.id, "v1")
      [] OTHER -> NoId

SetMax(S) == CHOOSE x \in S : \A y \in S : y <= x

\* the allocation without the increment
get_next_custom_id_of_max(dirs) ==
    LET existing_nums == {d.n : d \in {e \in dirs : e.kind = "custom"}}
    IN  IF existing_nums # {} THEN CustomId(SetMax(existing_nums)) ELSE CustomId(1)

get_next_custom_id(dirs) ==
    LET existing_nums == {d.n : d \in {e \in dirs : e.kind = "custom"}}
    IN  IF existing_nums # {} THEN CustomId(SetMax(existing_nums) + 1) ELSE CustomId(1)

\* get_paper_identifier: the identifiers the four strategies can return.
\* Strategy 3 reads one checkpoint file per custom_N directory, the first
\* one os.listdir yields; listdir's order is unspecified, so any file of the
\* directory may be that one and any matching directory may come first.
get_paper_identifier(paper_path, paper_content, dirs, files) ==
    LET from_name == extract_arxiv_id_from_filename(paper_path)
        from_content == extract_arxiv_id_from_content(paper_content)
        matches(f) == f.complete /\ Abspath(f.data.paper_path) = Abspath(paper_path)
        reusable == {d \in dirs : /\ d.kind = "custom"
                                  /\ \E f \in files : f.dir = d /\ matches(f)}
        \* a directory is passed over when the file read does not match or
        \* cannot be parsed
        skippable(d) == \/ d.kind # "custom"
                        \/ ~\E f \in files : f.dir = d
                        \/ \E f \in files : f.dir = d /\ ~matches(f)
    IN  IF from_name # NoId THEN {from_name}
        ELSE IF ~paper_content.empty /\ from_content # NoId THEN {from_content}
        ELSE reusable \cup
             (IF \A d \in dirs : skippable(d) THEN {get_next_custom_id(dirs)} ELSE {})

\* ------------------------------------------------------------------------
\* Configuration and pipeline state
\* ------------------------------------------------------------------------
\* config: the keys the subsystem reads.  models stands for the whole
\* 'models' mapping, base_url for config['api']['base_url'] (NoneStr when
\* the key is not set), num_questions and max_followup for the keys
\* num_questions and max_followup_per_question of config['workflow']
\* (NoneInt when not set), enable_checkpoints for config['output']
\* ['enable_checkpoints'] with its default True applied.
GetOr(v, none, default) == IF v = none THEN default ELSE v

Message(role, round, question_id) ==
    [role |-> role, round |-> round, question_id |-> question_id]

create_initial_state(paper_path, paper_content, config) ==
    [paper_path |-> paper_path,
     paper_content |-> paper_content,
     paper_structure |-> "",
     selected_questions |-> << >>,
     messages |-> << >>,
     current_question_id |-> 0,
     current_round |-> 0,
     total_questions |-> GetOr(config.num_questions, NoneInt, DefaultQuestions),
     final_report |-> "",
     config |-> config]

\* dict.update(node_output): every key of the update replaces the old value
DictUpdate(state, node_output) ==
    [k \in DOMAIN state |-> IF k \in DOMAIN node_output THEN node_output[k] ELSE state[k]]

\* the graph's own merge of a node's update into its state: the messages
\* channel is Annotated[..., operator.add], every other channel is replaced
ChannelMerge(state, node_output) ==
    [k \in DOMAIN state |->
        IF k \in DOMAIN node_output
        THEN IF k = "messages" THEN state[k] \o node_output[k] ELSE node_output[k]
        ELSE state[k]]

\* ------------------------------------------------------------------------
\* The graph of create_workflow: nodes and edges
\* ------------------------------------------------------------------------
\* selected_questions[current_id - 1] on a Python list: defined for an index
\* in -len .. len-1, IndexError otherwise
QuestionDefined(state) ==
    LET index == state.current_question_id - 1
        length == Len(state.selected_questions)
    IN  index < length /\ index >= 0 - length

node_analyze_structure(state) ==
    [paper_structure |-> "structure",
     messages |-> << Message("analyzer", 0, 0) >>]

\* parse_questions keeps the first num_questions of the `found` questions
\* the reviewer's text contains
node_select_questions(state, found) ==
    [selected_questions |-> [i \in 1..Min(found, state.total_questions) |-> i],
     messages |-> << Message("reviewer", 0, 0) >>]

after_select_questions(state) ==
    [current_question_id |-> 1, current_round |-> 1]

node_answer_question(state) ==
    [messages |-> << Message("analyzer", state.current_round, state.current_question_id) >>]

node_verify_answer(state) ==
    [messages |-> << Message("reviewer", state.current_round, state.current_question_id) >>]


\* should_continue_qa finishing one item early
should_continue_qa_early(state) ==
    IF state.current_question_id + 1 < state.total_questions THEN "next_question" ELSE "finish"

should_continue_qa(state) ==
    IF state.current_question_id < state.total_questions THEN "next_question" ELSE "finish"

move_to_next_question(state) ==
    [current_question_id |-> state.current_question_id + 1,
     current_round |-> state.current_round + 1]

node_integrate_report(state) ==
    [final_report |-> "report"]

EntryPoint == "analyze_structure"
END == "END"

\* the edges: the node that runs after `name`, given the merged state
NextNode(name, state) ==
    CASE name = "analyze_structure" -> "select_questions"
      [] name = "select_questions" -> "start_qa"
      [] name = "start_qa" -> "answer_question"
      [] name = "answer_question" -> "verify_answer"
      [] name = "verify_answer" ->
            IF should_continue_qa(state) = "next_question" THEN "next_question" ELSE "integrate_report"
      [] name = "next_question" -> "answer_question"
      [] name = "integrate_report" -> END

\* ------------------------------------------------------------------------
\* Snapshot store
\* ------------------------------------------------------------------------
\* a stage label 'final' or 'q<q>a<a>'
StageFinal == [kind |-> "final", q |-> 0, a |-> 0]
StageQA(q, a) == [kind |-> "q", q |-> q, a |-> a]

CountAnswers(messages, question_id) ==
    Cardinality({i \in 1..Len(messages) : /\ messages[i].question_id = question_id
                                          /\ messages[i].role = "analyzer"})

get_checkpoint_stage(state) ==
    LET current_q == state.current_question_id
        total_q == state.total_questions
        has_structure == state.paper_structure # ""
        has_questions == Len(state.selected_questions) > 0
        has_final_report == state.final_report # ""
    IN  IF has_final_report THEN StageFinal
        ELSE IF ~has_structure THEN StageQA(0, 0)
        ELSE IF ~has_questions THEN StageQA(0, 1)
        ELSE IF current_q < total_q
             THEN StageQA(current_q + 1, CountAnswers(state.messages, current_q))
             ELSE StageQA(total_q, 1)

\* the file's metadata, {} when the file does not exist
NoMetadata == [present |-> FALSE, size |-> 0, hash |-> ""]

get_pdf_metadata(on_disk, paper_path) ==
    IF Abspath(paper_path) \in DOMAIN on_disk /\ on_disk[Abspath(paper_path)].exists
    THEN [present |-> TRUE, size |-> on_disk[Abspath(paper_path)].size,
          hash |-> on_disk[Abspath(paper_path)].hash]
    ELSE NoMetadata


\* a config_snapshot that leaves the workflow block out
ConfigSnapshotWithoutWorkflow(config) ==
    [models |-> config.models,
     num_questions |-> NoneInt,
     max_followup |-> NoneInt,
     base_url |-> GetOr(config.base_url, NoneStr, "")]

\* the config_snapshot save_checkpoint records
ConfigSnapshot(config) ==
    [models |-> config.models,
     num_questions |-> config.num_questions,
     max_followup |-> config.max_followup,
     base_url |-> GetOr(config.base_url, NoneStr, "")]

\* the JSON document of a snapshot
Serialize(state, identifier, on_disk, now) ==
    [checkpoint_version |-> "2.0",
     saved_at |-> now,
     paper_identifier |-> identifier,
     pdf_metadata |-> get_pdf_metadata(on_disk, state.paper_path),
     config_snapshot |-> ConfigSnapshot(state.config),
     paper_path |-> state.paper_path,
     paper_structure |-> state.paper_structure,
     selected_questions |-> state.selected_questions,
     messages |-> state.messages,
     current_question_id |-> state.current_question_id,
     current_round |-> state.current_round,
     total_questions |-> state.total_questions,
     final_report |-> state.final_report]

DefaultConfig ==
    [models |-> "analyzer=A;reviewer=B", num_questions |-> NoneInt, max_followup |-> NoneInt,
     base_url |-> "https://api.example/v1", enable_checkpoints |-> TRUE]

DefaultDisk == [p \in Paths \ {PathPlainAlias} |-> [exists |-> TRUE, size |-> 1, hash |-> "h1"]]

NoState == create_initial_state("", NoContent, DefaultConfig)
NoSnapshot == Serialize(NoState, NoId, DefaultDisk, 0)

\* the serialized PipelineState fields of a snapshot or of a state
StateFields ==
    {"paper_path", "paper_structure", "selected_questions", "messages",
     "current_question_id", "current_round", "total_questions", "final_report"}

Fields(record) == [k \in StateFields |-> record[k]]

\* checkpoint_<stage>_<timestamp>.json: the timestamp has whole seconds
Timestamp(now) == now \div TicksPerSecond

SameName(f, dir, stage, timestamp) ==
    f.dir = dir /\ f.stage = stage /\ f.timestamp = timestamp

\* save_checkpoint: open(checkpoint_file, 'w') creates the file or
\* truncates the file of that name
save_checkpoint(existing, state, identifier, on_disk, now) ==
    LET stage == get_checkpoint_stage(state)
        timestamp == Timestamp(now)
        written == [dir |-> identifier, stage |-> stage, timestamp |-> timestamp,
                    mtime |-> now, complete |-> TRUE,
                    data |-> Serialize(state, identifier, on_disk, now)]
    IN  {f \in existing : ~SameName(f, identifier, stage, timestamp)} \cup {written}

\* save_readable_checkpoint: readable_<stage>_<timestamp>.md in the same
\* directory, written with open(readable_file, 'w')
save_readable_checkpoint(existing, state, identifier, now) ==
    LET stage == get_checkpoint_stage(state)
        timestamp == Timestamp(now)
        written == [dir |-> identifier, stage |-> stage, timestamp |-> timestamp]
    IN  {m \in existing : ~SameName(m, identifier, stage, timestamp)} \cup {written}

\* order of the file names of one directory as Python compares the strings
\* (labels with one-digit numbers): 'final' < 'q...', then q, a, timestamp
NameLess(f, g) ==
    \/ f.stage.kind = "final" /\ g.stage.kind = "q"
    \/ /\ f.stage.kind = g.stage.kind
       /\ \/ f.stage.q < g.stage.q
          \/ f.stage.q = g.stage.q /\ f.stage.a < g.stage.a
          \/ f.stage = g.stage /\ f.timestamp < g.timestamp

NoFile ==
    [dir |-> NoId, stage |-> StageFinal, timestamp |-> 0, mtime |-> 0 - 1, complete |-> FALSE,
     data |-> << >>]

\* checkpoints.sort(reverse=True)[0] over (mtime, filepath) pairs
LatestIn(files, identifier) ==
    LET candidates == {f \in files : f.dir = identifier}
    IN  IF candidates = {} THEN NoFile
        ELSE CHOOSE f \in candidates :
                \A g \in candidates :
                    g = f \/ g.mtime < f.mtime \/ (g.mtime = f.mtime /\ NameLess(g, f))

\* find_latest_checkpoint once the identifier is resolved: None (NoFile)
\* when the directory does not exist or holds no checkpoint
FindLatestIn(identifier, dirs, files) ==
    IF identifier \in dirs THEN LatestIn(files, identifier) ELSE NoFile

\* find_latest_checkpoint resolves the identifier without the content
find_latest_checkpoint(paper_path, dirs, files) ==
    {FindLatestIn(identifier, dirs, files) :
        identifier \in get_paper_identifier(paper_path, NoContent, dirs, files)}

\* load_checkpoint: json.load raises on a file that is not a whole JSON
\* document, and None (NoSnapshot) is returned
load_checkpoint(checkpoint_file) ==
    IF checkpoint_file.complete THEN checkpoint_file.data ELSE NoSnapshot

\* the entries of list_checkpoints, newest first.  The sort is by mtime
\* only and stable, so files of equal mtime keep os.listdir's order, which
\* is unspecified: every order that does not increase in mtime is possible.
ListEntry(f) ==
    [stage |-> f.stage, timestamp |-> f.timestamp, mtime |-> f.mtime,
     current_question |-> f.data.current_question_id,
     total_questions |-> f.data.total_questions,
     num_messages |-> Len(f.data.messages),
     is_completed |-> f.data.final_report # ""]

Orderings(S) ==
    {seq \in [1..Cardinality(S) -> S] :
        \A i, j \in 1..Cardinality(S) : i # j => seq[i] # seq[j]}

ListIn(identifier, dirs, files) ==
    IF identifier \in dirs
    THEN {[i \in 1..Len(seq) |-> ListEntry(seq[i])] :
            seq \in {o \in Orderings({f \in files : f.dir = identifier /\ f.complete}) :
                        \A i, j \in 1..Len(o) : i < j => o[i].mtime >= o[j].mtime}}
    ELSE {<< >>}

list_checkpoints(paper_path, dirs, files) ==
    UNION {ListIn(identifier, dirs, files) :
            identifier \in get_paper_identifier(paper_path, NoContent, dirs, files)}

\* an append that stops at the first difference found
AppendFirst(seq, condition, entry) == IF condition /\ seq = << >> THEN Append(seq, entry) ELSE seq

\* verify_checkpoint_consistency on a loadable checkpoint: the difference
\* entries in the order the checks append them
AppendIf(seq, condition, entry) == IF condition THEN Append(seq, entry) ELSE seq

verify_checkpoint_consistency(checkpoint, current_paper_path, current_config, on_disk) ==
    LET saved_pdf_meta == checkpoint.pdf_metadata
        current_pdf_meta == get_pdf_metadata(on_disk, current_paper_path)
        both == saved_pdf_meta.present /\ current_pdf_meta.present
        saved_config == checkpoint.config_snapshot
        d1 == AppendIf(<< >>, Abspath(checkpoint.paper_path) # Abspath(current_paper_path),
                       "paper_path")
        d2 == AppendIf(d1, both /\ saved_pdf_meta.size # current_pdf_meta.size, "pdf_size")
        d3 == AppendIf(d2, /\ both
                           /\ saved_pdf_meta.hash # "" /\ current_pdf_meta.hash # ""
                           /\ saved_pdf_meta.hash # current_pdf_meta.hash, "pdf_hash")
        d4 == AppendIf(d3, saved_config.models # current_config.models, "models")
        d5 == AppendIf(d4, saved_config.num_questions # current_config.num_questions,
                       "num_questions")
        differences == AppendIf(d5, saved_config.base_url # current_config.base_url, "base_url")
    IN  [is_consistent |-> Len(differences) = 0, differences |-> differences]

\* ------------------------------------------------------------------------
\* Retention: cleanup_checkpoints
\* ------------------------------------------------------------------------
\* age_days = (time.time() - mtime) / 86400
SecondsPerDay == 86400
TicksPerDay == SecondsPerDay * TicksPerSecond

\* config['checkpoint_management']; NoneInt for a limit that is not set,
\* keep_completed with its default True applied
Policy(auto_cleanup, max_size_mb, max_files, max_age_days, keep_per_paper, keep_completed) ==
    [auto_cleanup |-> auto_cleanup, max_checkpoint_size_mb |-> max_size_mb,
     max_checkpoint_files |-> max_files, max_checkpoint_age_days |-> max_age_days,
     keep_per_paper |-> keep_per_paper, keep_completed |-> keep_completed]

NoPolicy == Policy(FALSE, NoneInt, NoneInt, NoneInt, NoneInt, TRUE)

\* st_size, in the unit of max_checkpoint_size_mb: the JSON document of a
\* snapshot is one unit, two with the final report in it; a file that was
\* opened for writing and never written holds nothing.  A readable_*.md
\* file is one unit.
FileSize(f) == IF ~f.complete THEN 0 ELSE IF f.data.final_report # "" THEN 2 ELSE 1
MirrorSize(m) == 1

RECURSIVE SumSizes(_)
SumSizes(S) ==
    IF S = {} THEN 0
    ELSE LET f == CHOOSE x \in S : TRUE IN FileSize(f) + SumSizes(S \ {f})

\* get_dir_size walks the whole tree: every file of every directory counts
get_dir_size(json_files, md_files) ==
    SumSizes(json_files) + Cardinality(md_files) * MirrorSize(NoFile)

\* is_completed with the comparison written as current_q > total_q
is_completed_strict(f) ==
    f.complete /\ f.data.current_question_id > f.data.total_questions

\* is_completed as cleanup_checkpoints derives it; False when the file
\* cannot be parsed
is_completed(f) ==
    f.complete /\ f.data.current_question_id >= f.data.total_questions

\* all_checkpoints after the sort by mtime: the sort is stable, files of
\* equal mtime stay in the order os.listdir produced them
AllCheckpoints(json_files) ==
    {o \in Orderings(json_files) : \A i, j \in 1..Len(o) : i < j => o[i].mtime <= o[j].mtime}

Pos(all, f) == CHOOSE i \in 1..Len(all) : all[i] = f

Protected(policy, cp) == policy.keep_completed /\ is_completed(cp)


\* the age policy comparing with >=
MarkAgeInclusive(all, policy, now) ==
    IF policy.max_checkpoint_age_days # NoneInt
    THEN {all[i] : i \in {k \in 1..Len(all) :
                            /\ now - all[k].mtime >= policy.max_checkpoint_age_days * TicksPerDay
                            /\ ~Protected(policy, all[k])}}
    ELSE {}

\* policy 1: age
MarkAge(all, policy, now) ==
    IF policy.max_checkpoint_age_days # NoneInt
    THEN {all[i] : i \in {k \in 1..Len(all) :
                            /\ now - all[k].mtime > policy.max_checkpoint_age_days * TicksPerDay
                            /\ ~Protected(policy, all[k])}}
    ELSE {}


\* the checkpoints of one directory sorted oldest first
PerPaperOldestFirst(all, paper_dir) ==
    LET cps == {all[i] : i \in {k \in 1..Len(all) : all[k].dir = paper_dir}}
    IN  CHOOSE o \in Orderings(cps) :
            \A i, j \in 1..Len(o) :
                i < j => \/ o[i].mtime < o[j].mtime
                         \/ o[i].mtime = o[j].mtime /\ Pos(all, o[i]) < Pos(all, o[j])

\* policy 2: the checkpoints of one directory, newest first (a stable sort
\* of the directory's part of all_checkpoints)
PerPaper(all, paper_dir) ==
    LET cps == {all[i] : i \in {k \in 1..Len(all) : all[k].dir = paper_dir}}
    IN  CHOOSE o \in Orderings(cps) :
            \A i, j \in 1..Len(o) :
                i < j => \/ o[i].mtime > o[j].mtime
                         \/ o[i].mtime = o[j].mtime /\ Pos(all, o[i]) < Pos(all, o[j])

RECURSIVE KeepScan(_, _, _, _, _)
KeepScan(cps, i, kept_count, policy, marked) ==
    IF i > Len(cps) THEN marked
    ELSE IF kept_count >= policy.keep_per_paper
         THEN IF Protected(policy, cps[i])
              THEN KeepScan(cps, i + 1, kept_count, policy, marked)
              ELSE KeepScan(cps, i + 1, kept_count, policy, marked \cup {cps[i]})
         ELSE IF ~Protected(policy, cps[i])
              THEN KeepScan(cps, i + 1, kept_count + 1, policy, marked)
              ELSE KeepScan(cps, i + 1, kept_count, policy, marked)

MarkPerPaper(all, policy, marked) ==
    IF policy.keep_per_paper # NoneInt
    THEN marked \cup UNION {KeepScan(PerPaper(all, d), 1, 0, policy, {}) :
                                d \in {all[i].dir : i \in 1..Len(all)}}
    ELSE marked

\* policy 3: the total number of files
RECURSIVE CountScan(_, _, _, _, _)
CountScan(all, i, excess, policy, marked) ==
    IF i > Len(all) \/ excess <= 0 THEN marked
    ELSE IF Protected(policy, all[i]) THEN CountScan(all, i + 1, excess, policy, marked)
    ELSE IF all[i] \notin marked
         THEN CountScan(all, i + 1, excess - 1, policy, marked \cup {all[i]})
         ELSE CountScan(all, i + 1, excess, policy, marked)


\* the count policy with an unset limit read as 0
MarkCountUnsetAsZero(all, policy, current_files, marked) ==
    IF policy.max_checkpoint_files = NoneInt
    THEN CountScan(all, 1, current_files, policy, marked)
    ELSE IF current_files > policy.max_checkpoint_files
         THEN CountScan(all, 1, current_files - policy.max_checkpoint_files, policy, marked)
         ELSE marked

MarkCount(all, policy, current_files, marked) ==
    IF policy.max_checkpoint_files # NoneInt /\ current_files > policy.max_checkpoint_files
    THEN CountScan(all, 1, current_files - policy.max_checkpoint_files, policy, marked)
    ELSE marked

\* policy 4: the total size
RECURSIVE SizeScan(_, _, _, _, _, _)
SizeScan(all, i, freed_so_far, need_free, policy, marked) ==
    IF i > Len(all) \/ freed_so_far >= need_free THEN marked
    ELSE IF Protected(policy, all[i])
         THEN SizeScan(all, i + 1, freed_so_far, need_free, policy, marked)
    ELSE IF all[i] \notin marked
         THEN SizeScan(all, i + 1, freed_so_far + FileSize(all[i]), need_free, policy,
                       marked \cup {all[i]})
         ELSE SizeScan(all, i + 1, freed_so_far, need_free, policy, marked)

MarkSize(all, policy, current_size_mb, marked) ==
    IF policy.max_checkpoint_size_mb # NoneInt /\ current_size_mb > policy.max_checkpoint_size_mb
    THEN SizeScan(all, 1, SumSizes(marked), current_size_mb - policy.max_checkpoint_size_mb,
                  policy, marked)
    ELSE marked

\* the readable file removed with a checkpoint: the checkpoint's path with
\* 'checkpoint_' replaced by 'readable_' and '.json' by '.md'
PairedMirrors(md_files, marked) ==
    {m \in md_files : \E f \in marked : SameName(m, f.dir, f.stage, f.timestamp)}

\* an append without the test for membership
AppendMarked(files_to_delete, qualifying) == files_to_delete (+) SetToBag(qualifying)

\* if cp not in files_to_delete: files_to_delete.append(cp), for every
\* checkpoint a policy's scan selects; files_to_delete is a list, kept here
\* as the bag of its entries
AppendUnmarked(files_to_delete, qualifying) ==
    files_to_delete (+) SetToBag(qualifying \ BagToSet(files_to_delete))

\* cleanup_checkpoints: the files marked after each policy, in the order the
\* policies are applied, and the files removed.  os.remove is taken to succeed.
\* `appended` is the list files_to_delete: policy 1 appends to the empty
\* list, policy 2 appends what its scan of each directory selects, policies
\* 3 and 4 what their scans select.
cleanup_checkpoints(json_files, md_files, policy, now, all) ==
    LET current_files == Cardinality(json_files)
        current_size_mb == get_dir_size(json_files, md_files)
        by_age == MarkAge(all, policy, now)
        by_paper == MarkPerPaper(all, policy, by_age)
        by_count == MarkCount(all, policy, current_files, by_paper)
        by_size == MarkSize(all, policy, current_size_mb, by_count)
        files_to_delete == IF policy.auto_cleanup THEN by_size ELSE {}
        appended == AppendUnmarked(
                        AppendUnmarked(
                            AppendUnmarked(SetToBag(by_age), MarkPerPaper(all, policy, {})),
                            by_count),
                        by_size)
    IN  [by_age |-> by_age, by_paper |-> by_paper, by_count |-> by_count,
         files_to_delete |-> files_to_delete,
         appended |-> IF policy.auto_cleanup THEN appended ELSE EmptyBag,
         mirrors_deleted |-> PairedMirrors(md_files, files_to_delete),
         deleted_files |-> Cardinality(files_to_delete)]


\* a deletion loop that counts a file whether or not os.remove succeeded
delete_marked_counting_failures(files_to_delete, md_files, failing, mirror_fails) ==
    [removed |-> files_to_delete \ failing,
     mirrors_removed |-> IF mirror_fails THEN {}
                         ELSE PairedMirrors(md_files, files_to_delete \ failing),
     deleted_files |-> Cardinality(files_to_delete),
     freed_bytes |-> SumSizes(files_to_delete)
                     + (IF mirror_fails THEN 0
                        ELSE Cardinality(PairedMirrors(md_files, files_to_delete \ failing))
                             * MirrorSize(NoFile))]

\* the deletion loop of cleanup_checkpoints: os.remove raises for the files
\* in `failing` (already gone, not permitted), the exception is logged and
\* the loop goes on; the readable file of a removed checkpoint is removed
\* too unless that os.remove raises (mirror_fails)
delete_marked(files_to_delete, md_files, failing, mirror_fails) ==
    LET removed == files_to_delete \ failing
        mirrors_removed == IF mirror_fails THEN {} ELSE PairedMirrors(md_files, removed)
    IN  [removed |-> removed,
         mirrors_removed |-> mirrors_removed,
         deleted_files |-> Cardinality(removed),
         freed_bytes |-> SumSizes(removed) + Cardinality(mirrors_removed) * MirrorSize(NoFile)]

\* ------------------------------------------------------------------------
\* State
\* ------------------------------------------------------------------------
VARIABLES
    clock,          \* the time, in ticks
    dirs,           \* the directories of the checkpoint base directory
    files,          \* the checkpoint_*.json files: dir, name parts, mtime, data
    mirrors,        \* the readable_*.md files: dir, name parts
    disk,           \* the input files: exists, size, hash
    config,         \* the configuration loaded by the running process
    subjects,       \* the input paths in use
    history,        \* the save_checkpoint calls of the processes observed: path, state, time
    api,            \* the last call of the store's interface and its result
    mode,           \* where the process is: idle, fresh, resume_*, returned
    node,           \* the graph node that runs next
    graph_state,    \* the state the compiled graph holds
    current_state,  \* the dict the stream loops accumulate
    resume_state,   \* resume_workflow's resume_state
    final_state,    \* the state handed back to main
    checkpoint_state, \* the snapshot a resumed run was started from
    calls,          \* the stages handed to the executor in this run
    done,           \* the stages the executor has completed for the subject
    runs            \* the number of processes started

vars == << clock, dirs, files, mirrors, disk, config, subjects, history, api, mode, node,
           graph_state, current_state, resume_state, final_state, checkpoint_state,
           calls, done, runs >>

store_vars == << clock, dirs, files, mirrors, disk, config, subjects, history, api >>
flow_vars == << mode, node, graph_state, current_state, resume_state, final_state,
                checkpoint_state, calls, done, runs >>

NoReport == cleanup_checkpoints({}, {}, NoPolicy, 0, << >>)
NoSweep == delete_marked({}, {}, {}, FALSE)

NoCall ==
    [op |-> "none", path |-> "", identifier |-> NoId, found |-> FALSE,
     data |-> NoSnapshot, entries |-> << >>,
     policy |-> NoPolicy, before |-> {}, before_mirrors |-> {}, report |-> NoReport,
     resolved |-> [p \in Paths |-> NoId], previous |-> NoId, partial |-> FALSE,
     request |-> "", verdict |-> FALSE, answer |-> "", failing |-> {}, sweep |-> NoSweep]

FlowIdle ==
    /\ mode = "idle"
    /\ node = END
    /\ graph_state = NoState
    /\ current_state = NoState
    /\ resume_state = NoState
    /\ final_state = NoState
    /\ checkpoint_state = NoSnapshot
    /\ calls = << >>
    /\ done = {}
    /\ runs = 0

\* ------------------------------------------------------------------------
\* Saving from a running process
\* ------------------------------------------------------------------------
\* save_checkpoint and save_readable_checkpoint, called one after the other
\* at time `now`; `cause` names the call site and
\* `completed` the number of stages completed in the run at that moment
SaveEvent(state, identifier, now, cause, completed) ==
    [path |-> state.paper_path, identifier |-> identifier, state |-> Fields(state),
     stage |-> get_checkpoint_stage(state), time |-> now, cause |-> cause,
     completed |-> completed, config |-> state.config,
     metadata |-> get_pdf_metadata(disk, state.paper_path)]

Save(state, now, cause, completed) ==
    \E identifier \in get_paper_identifier(state.paper_path, state.paper_content, dirs, files) :
        /\ dirs' = dirs \cup {identifier}
        /\ files' = save_checkpoint(files, state, identifier, disk, now)
        /\ mirrors' = save_readable_checkpoint(mirrors, state, identifier, now)
        /\ history' = Append(history, SaveEvent(state, identifier, now, cause, completed))

\* if enable_checkpoints and <condition>: save_checkpoint(state, ...)
SaveIf(condition, state, now, cause, completed) ==
    IF config.enable_checkpoints /\ condition
    THEN Save(state, now, cause, completed)
    ELSE UNCHANGED << dirs, files, mirrors, history >>

\* ------------------------------------------------------------------------
\* The process: main, run_workflow, resume_workflow
\* ------------------------------------------------------------------------
ExecutorNodes ==
    {"analyze_structure", "select_questions", "answer_question", "verify_answer",
     "integrate_report"}

checkpoint_nodes == {"analyze_structure", "select_questions", "answer_question", "verify_answer"}
resume_checkpoint_nodes == {"answer_question", "verify_answer"}

RunningModes == {"fresh", "resume_invoke", "resume_stream", "resume_reinvoke"}
StoppedModes == {"idle", "done", "failed"}

Call(name, state, ok) == [stage |-> name, question_id |-> state.current_question_id, ok |-> ok]
Stage(name, state) == [stage |-> name, question_id |-> state.current_question_id]

Completed(cs) == Cardinality({i \in 1..Len(cs) : cs[i].ok})

\* main: no resume requested or no checkpoint chosen -> run_workflow
StartFresh ==
    /\ mode \in StoppedModes
    /\ runs < MaxRuns
    /\ \E paper_path \in subjects :
        LET initial_state == create_initial_state(paper_path, ParsePdf(paper_path), config)
        IN  /\ graph_state' = initial_state
            /\ current_state' = initial_state
    /\ mode' = "fresh"
    /\ node' = EntryPoint
    /\ resume_state' = NoState
    /\ final_state' = NoState
    /\ checkpoint_state' = NoSnapshot
    /\ calls' = << >>
    /\ history' = << >>
    /\ runs' = runs + 1
    /\ UNCHANGED << clock, dirs, files, mirrors, disk, config, subjects, api, done >>

\* resume_workflow's resume_state: the checkpoint's fields, the re-parsed
\* content and the current configuration
ResumeState(checkpoint) ==
    [paper_path |-> checkpoint.paper_path,
     paper_content |-> ParsePdf(checkpoint.paper_path),
     paper_structure |-> checkpoint.paper_structure,
     selected_questions |-> checkpoint.selected_questions,
     messages |-> checkpoint.messages,
     current_question_id |-> checkpoint.current_question_id,
     current_round |-> checkpoint.current_round,
     total_questions |-> checkpoint.total_questions,
     final_report |-> checkpoint.final_report,
     config |-> config]

\* the branch resume_workflow takes
ResumeBranch(checkpoint) ==
    LET has_structure == checkpoint.paper_structure # ""
        has_questions == Len(checkpoint.selected_questions) > 0
    IN  IF ~has_structure THEN "resume_invoke"
        ELSE IF ~has_questions THEN "resume_invoke"
        ELSE IF checkpoint.current_question_id >= checkpoint.total_questions
             THEN "resume_integrate"
             ELSE "resume_stream"

\* main: a checkpoint file was chosen (--checkpoint, --resume or the
\* interactive list) -> load_checkpoint, resume_workflow up to the branch
StartResume ==
    /\ mode \in StoppedModes
    /\ runs < MaxRuns
    /\ \E f \in files :
        LET checkpoint == load_checkpoint(f)
            branch == ResumeBranch(checkpoint)
            loaded == ResumeState(checkpoint)
            advanced == [loaded EXCEPT !.current_question_id = @ + 1, !.current_round = @ + 1]
        IN  /\ Abspath(checkpoint.paper_path) \in {Abspath(p) : p \in subjects}
            /\ checkpoint_state' = checkpoint
            /\ mode' = branch
            /\ resume_state' = IF branch = "resume_stream" THEN advanced ELSE loaded
            /\ graph_state' = resume_state'
            /\ current_state' = IF branch = "resume_stream" THEN advanced ELSE NoState
            /\ node' = IF branch = "resume_integrate" THEN "integrate_report" ELSE EntryPoint
    /\ final_state' = NoState
    /\ calls' = << >>
    /\ history' = << >>
    /\ runs' = runs + 1
    /\ UNCHANGED << clock, dirs, files, mirrors, disk, config, subjects, api, done >>

\* One node of the graph has run and returned node_output after dt ticks:
\* the graph merges the update and follows the edge; the caller's loop
\* (run_workflow's stream loop, resume_workflow's stream loop, or a plain
\* invoke) accumulates and saves as its code says.
Advance(name, node_output, dt) ==
    LET merged == ChannelMerge(graph_state, node_output)
        next == NextNode(name, merged)
        now == clock + dt
        executed == name \in ExecutorNodes
        calls_now == IF executed THEN Append(calls, Call(name, graph_state, TRUE)) ELSE calls
        completed == Completed(calls_now)
    IN  /\ clock' = now
        /\ calls' = calls_now
        /\ done' = IF executed THEN done \cup {Stage(name, graph_state)} ELSE done
        /\ CASE mode = "fresh" ->
                  LET updated == DictUpdate(current_state, node_output)
                  IN  /\ current_state' = updated
                      /\ graph_state' = merged
                      /\ node' = next
                      /\ IF next = END
                         THEN /\ final_state' = updated
                              /\ mode' = "returned"
                              /\ SaveIf(TRUE, updated, now, "final", completed)
                         ELSE /\ SaveIf(name \in checkpoint_nodes, updated, now, "stage", completed)
                              /\ UNCHANGED << final_state, mode >>
             [] mode = "resume_stream" ->
                  LET updated == DictUpdate(current_state, node_output)
                  IN  /\ current_state' = updated
                      /\ SaveIf(name \in resume_checkpoint_nodes, updated, now, "stage", completed)
                      /\ UNCHANGED final_state
                      /\ IF next = END
                         THEN \* final_state = app.invoke(resume_state)
                              /\ mode' = "resume_reinvoke"
                              /\ graph_state' = resume_state
                              /\ node' = EntryPoint
                         ELSE /\ graph_state' = merged
                              /\ node' = next
                              /\ UNCHANGED mode
             [] mode \in {"resume_invoke", "resume_reinvoke"} ->
                  /\ graph_state' = merged
                  /\ node' = next
                  /\ UNCHANGED current_state
                  /\ IF next = END
                     THEN /\ final_state' = merged
                          /\ mode' = "returned"
                          /\ SaveIf(TRUE, merged, now, "final", completed)
                     ELSE /\ UNCHANGED << final_state, mode, dirs, files, mirrors, history >>
             [] mode = "resume_integrate" ->
                  \* final_state = {**resume_state, **result}
                  /\ graph_state' = merged
                  /\ node' = END
                  /\ final_state' = DictUpdate(resume_state, node_output)
                  /\ mode' = "returned"
                  /\ SaveIf(TRUE, DictUpdate(resume_state, node_output), now, "final", completed)
                  /\ UNCHANGED current_state
        /\ UNCHANGED << disk, config, subjects, api, resume_state, checkpoint_state, runs >>

InGraph == mode \in RunningModes

AnalyzeStructure ==
    /\ InGraph
    /\ node = "analyze_structure"
    /\ Advance("analyze_structure", node_analyze_structure(graph_state), TicksPerSecond)

SelectQuestions ==
    /\ InGraph
    /\ node = "select_questions"
    /\ \E found \in 0..MaxQuestions :
        Advance("select_questions", node_select_questions(graph_state, found), TicksPerSecond)

StartQA ==
    /\ InGraph
    /\ node = "start_qa"
    /\ Advance("start_qa", after_select_questions(graph_state), 0)

AnswerQuestion ==
    /\ InGraph
    /\ node = "answer_question"
    /\ QuestionDefined(graph_state)
    /\ Advance("answer_question", node_answer_question(graph_state), TicksPerSecond)

VerifyAnswer ==
    /\ InGraph
    /\ node = "verify_answer"
    /\ QuestionDefined(graph_state)
    /\ Advance("verify_answer", node_verify_answer(graph_state), TicksPerSecond)

NextQuestion ==
    /\ InGraph
    /\ node = "next_question"
    /\ Advance("next_question", move_to_next_question(graph_state), 0)

IntegrateReport ==
    /\ mode \in RunningModes \cup {"resume_integrate"}
    /\ node = "integrate_report"
    /\ Advance("integrate_report", node_integrate_report(graph_state), TicksPerSecond)

\* The node raises: the remote call fails after its retries, or the question
\* lookup raises IndexError.  run_workflow saves current_state, branch 4 of
\* resume_workflow saves resume_state, the other branches have no handler;
\* main logs the exception and exits.
StageFails ==
    /\ mode \in RunningModes \cup {"resume_integrate"}
    /\ node \in ExecutorNodes
    /\ \E dt \in {0, TicksPerSecond} :
        /\ clock' = clock + dt
        /\ calls' = Append(calls, Call(node, graph_state, FALSE))
        /\ CASE mode = "fresh" ->
                  SaveIf(TRUE, current_state, clock + dt, "failure", Completed(calls))
             [] mode \in {"resume_stream", "resume_reinvoke"} ->
                  SaveIf(TRUE, resume_state, clock + dt, "failure", Completed(calls))
             [] OTHER -> UNCHANGED << dirs, files, mirrors, history >>
    /\ mode' = "failed"
    /\ UNCHANGED << disk, config, subjects, api, node, graph_state, current_state,
                    resume_state, final_state, checkpoint_state, done, runs >>

\* main after the workflow returned: save_report, then the checkpoint of the
\* completed state, then exit
MainFinish ==
    /\ mode = "returned"
    /\ \E dt \in {0, 1} :
        /\ clock' = clock + dt
        /\ SaveIf(TRUE, final_state, clock + dt, "main", Completed(calls))
    /\ mode' = "done"
    /\ UNCHANGED << disk, config, subjects, api, node, graph_state, current_state,
                    resume_state, final_state, checkpoint_state, calls, done, runs >>

FlowConfigs ==
    {[DefaultConfig EXCEPT !.num_questions = n, !.enable_checkpoints = e] :
        n \in 1..MaxQuestions, e \in BOOLEAN}

FlowSubjects == {{PathBare}, {PathPlainA}}

FlowInit ==
    /\ clock = 0
    /\ dirs = {}
    /\ files = {}
    /\ mirrors = {}
    /\ disk = DefaultDisk
    /\ config \in FlowConfigs
    /\ subjects \in FlowSubjects
    /\ history = << >>
    /\ api = NoCall
    /\ FlowIdle

FlowNext ==
    \/ StartFresh
    \/ StartResume
    \/ AnalyzeStructure
    \/ SelectQuestions
    \/ StartQA
    \/ AnswerQuestion
    \/ VerifyAnswer
    \/ NextQuestion
    \/ IntegrateReport
    \/ StageFails
    \/ MainFinish

SpecFlow == FlowInit /\ [][FlowNext]_vars


\* ------------------------------------------------------------------------
\* One process on an empty store: main calls run_workflow
\* ------------------------------------------------------------------------
RunFresh ==
    /\ runs = 0
    /\ StartFresh

FreshNext ==
    \/ RunFresh
    \/ AnalyzeStructure
    \/ SelectQuestions
    \/ StartQA
    \/ AnswerQuestion
    \/ VerifyAnswer
    \/ NextQuestion
    \/ IntegrateReport
    \/ StageFails
    \/ MainFinish

SpecFresh == FlowInit /\ [][FreshNext]_vars

\* ------------------------------------------------------------------------
\* The store's interface called directly
\* ------------------------------------------------------------------------
NodeOutput(name, state) ==
    CASE name = "analyze_structure" -> node_analyze_structure(state)
      [] name = "select_questions" -> node_select_questions(state, state.total_questions)
      [] name = "start_qa" -> after_select_questions(state)
      [] name = "answer_question" -> node_answer_question(state)
      [] name = "verify_answer" -> node_verify_answer(state)
      [] name = "next_question" -> move_to_next_question(state)
      [] name = "integrate_report" -> node_integrate_report(state)

\* run_workflow's current_state after `steps` nodes of a run without failure
RECURSIVE StreamRun(_, _, _, _)
StreamRun(graph, current, name, steps) ==
    IF steps = 0 \/ name = END THEN current
    ELSE LET node_output == NodeOutput(name, graph)
             merged == ChannelMerge(graph, node_output)
         IN  StreamRun(merged, DictUpdate(current, node_output), NextNode(name, merged), steps - 1)

\* the states handed to save_checkpoint: after the structure analysis, after
\* the first answer, and at the end of a run
SaveInputs(paper_path, cfg) ==
    LET initial_state == create_initial_state(paper_path, ParsePdf(paper_path), cfg)
    IN  {StreamRun(initial_state, initial_state, EntryPoint, steps) : steps \in {1, 4, 4 * MaxQuestions + 8}}

Tick ==
    /\ clock < MaxClock
    /\ clock' = clock + 1
    /\ UNCHANGED << dirs, files, mirrors, disk, config, subjects, history, api >>
    /\ UNCHANGED flow_vars

ApiSave ==
    /\ Len(history) < MaxSaves
    /\ \E paper_path \in subjects :
        \E state \in SaveInputs(paper_path, config) :
            /\ Save(state, clock, "api", 0)
            /\ api' = [NoCall EXCEPT !.op = "save", !.path = paper_path,
                                      !.identifier = history'[Len(history')].identifier]
    /\ UNCHANGED << clock, disk, config, subjects >>
    /\ UNCHANGED flow_vars

\* a file that os.listdir yields and json.load cannot parse
Unparsed(m) ==
    [dir |-> m.dir, stage |-> m.stage, timestamp |-> m.timestamp, mtime |-> MaxClock + 1,
     complete |-> FALSE, data |-> << >>]

\* a directory listing taken whole: every file of it is a candidate
CheckpointNamesUnfiltered(json_files, md_files) == json_files \cup {Unparsed(m) : m \in md_files}

\* the files of a listing that find_latest_checkpoint keeps:
\* filename.startswith("checkpoint_") and filename.endswith('.json')
CheckpointNames(json_files, md_files) == json_files

\* loadLatest: find_latest_checkpoint, then load_checkpoint of what it found
ApiLoadLatest ==
    /\ \E paper_path \in subjects :
        \E identifier \in get_paper_identifier(paper_path, NoContent, dirs, files) :
            LET latest == FindLatestIn(identifier, dirs, CheckpointNames(files, mirrors))
            IN  api' = [NoCall EXCEPT !.op = "load", !.path = paper_path,
                                       !.identifier = identifier,
                                       !.found = (latest # NoFile),
                                       !.partial = (latest # NoFile /\ ~latest.complete),
                                       !.data = IF latest # NoFile
                                                THEN load_checkpoint(latest) ELSE NoSnapshot]
    /\ UNCHANGED << clock, dirs, files, mirrors, disk, config, subjects, history >>
    /\ UNCHANGED flow_vars

ApiList ==
    /\ \E paper_path \in subjects :
        \E identifier \in get_paper_identifier(paper_path, NoContent, dirs, files) :
            \E entries \in ListIn(identifier, dirs, files) :
                api' = [NoCall EXCEPT !.op = "list", !.path = paper_path,
                                       !.identifier = identifier,
                                       !.found = (entries # << >>),
                                       !.entries = entries]
    /\ UNCHANGED << clock, dirs, files, mirrors, disk, config, subjects, history >>
    /\ UNCHANGED flow_vars

StoreSubjects ==
    {{p} : p \in Paths \ {PathPlainAlias}} \cup {{PathPlainA, PathPlainB}}

StoreInit ==
    /\ clock = 0
    /\ dirs = {}
    /\ files = {}
    /\ mirrors = {}
    /\ disk = DefaultDisk
    /\ config = DefaultConfig
    /\ subjects \in StoreSubjects
    /\ history = << >>
    /\ api = NoCall
    /\ FlowIdle

StoreNext ==
    \/ Tick
    \/ ApiSave
    \/ ApiLoadLatest
    \/ ApiList

SpecStore == StoreInit /\ [][StoreNext]_vars

\* ------------------------------------------------------------------------
\* Consistency verification between a save and a later resume
\* ------------------------------------------------------------------------
VerifyConfigs ==
    {[DefaultConfig EXCEPT !.models = m, !.num_questions = n, !.max_followup = k,
                           !.base_url = u] :
        m \in {"analyzer=A;reviewer=B", "analyzer=C;reviewer=B"},
        n \in {NoneInt, 2},
        k \in {NoneInt, 1},
        u \in {NoneStr, "", "https://api.example/v1"}}

\* the input file as it is, edited in place, edited to another length, gone
DiskStates ==
    {[exists |-> TRUE, size |-> 1, hash |-> "h1"],
     [exists |-> TRUE, size |-> 1, hash |-> "h2"],
     [exists |-> TRUE, size |-> 2, hash |-> "h3"],
     [exists |-> FALSE, size |-> 0, hash |-> ""]}

\* one process saves a snapshot of its state
VerifySave ==
    /\ history = << >>
    /\ \E paper_path \in subjects :
        \E state \in SaveInputs(paper_path, config) :
            /\ Save(state, clock, "api", 0)
            /\ api' = [NoCall EXCEPT !.op = "save", !.path = paper_path,
                                      !.identifier = history'[Len(history')].identifier]
    /\ UNCHANGED << clock, disk, config, subjects >>
    /\ UNCHANGED flow_vars

\* between two processes the operator edits config.yaml
EditConfig ==
    /\ api.op = "save"
    /\ \E edited \in VerifyConfigs :
        /\ edited # config
        /\ config' = edited
    /\ UNCHANGED << clock, dirs, files, mirrors, disk, subjects, history, api >>
    /\ UNCHANGED flow_vars

\* ... or the input file changes
EditPaper ==
    /\ api.op = "save"
    /\ \E paper_path \in subjects, edited \in DiskStates :
        /\ edited # disk[Abspath(paper_path)]
        /\ disk' = [disk EXCEPT ![Abspath(paper_path)] = edited]
    /\ UNCHANGED << clock, dirs, files, mirrors, config, subjects, history, api >>
    /\ UNCHANGED flow_vars

\* main's handle_checkpoint_consistency calls the verifier with the path
\* given on the command line and the configuration just loaded
ApiVerify ==
    /\ \E f \in files, current_paper_path \in subjects \cup {PathPlainAlias} :
        LET report == verify_checkpoint_consistency(load_checkpoint(f), current_paper_path,
                                                    config, disk)
        IN  api' = [NoCall EXCEPT !.op = "verify", !.path = current_paper_path,
                                   !.identifier = f.dir,
                                   !.found = report.is_consistent,
                                   !.data = load_checkpoint(f),
                                   !.entries = report.differences]
    /\ UNCHANGED << clock, dirs, files, mirrors, disk, config, subjects, history >>
    /\ UNCHANGED flow_vars

VerifyInit ==
    /\ clock = 0
    /\ dirs = {}
    /\ files = {}
    /\ mirrors = {}
    /\ disk = DefaultDisk
    /\ config \in VerifyConfigs
    /\ subjects \in {{PathPlainA}, {PathBare}}
    /\ history = << >>
    /\ api = NoCall
    /\ FlowIdle

VerifyNext ==
    \/ VerifySave
    \/ EditConfig
    \/ EditPaper
    \/ ApiVerify

SpecVerify == VerifyInit /\ [][VerifyNext]_vars

\* ------------------------------------------------------------------------
\* Retention at process start, between the saves of earlier and later runs
\* ------------------------------------------------------------------------
\* time passes while no process runs
DayPasses ==
    /\ api.op # "cleanup"
    /\ clock \div TicksPerDay < MaxDays
    /\ clock' = clock + TicksPerDay
    /\ UNCHANGED << dirs, files, mirrors, disk, config, subjects, history, api >>
    /\ UNCHANGED flow_vars

\* a run of an earlier process saved a snapshot and its readable mirror:
\* the one after the structure analysis or the one of the completed run
\* (the store is bounded by the number of snapshots it holds)
CleanupSave ==
    /\ api.op # "cleanup"
    /\ Cardinality(files) < MaxSaves
    /\ \E paper_path \in subjects :
        \E state \in {input \in SaveInputs(paper_path, config) :
                        input.final_report # "" \/ input.selected_questions = << >>} :
            \E identifier \in get_paper_identifier(paper_path, state.paper_content, dirs, files) :
                /\ dirs' = dirs \cup {identifier}
                /\ files' = save_checkpoint(files, state, identifier, disk, clock)
                /\ mirrors' = save_readable_checkpoint(mirrors, state, identifier, clock)
                /\ api' = [NoCall EXCEPT !.op = "save", !.path = paper_path,
                                          !.identifier = identifier]
    /\ UNCHANGED << clock, disk, config, subjects, history >>
    /\ UNCHANGED flow_vars

\* the limits a config.yaml sets
Policies ==
    {Policy(TRUE, s, n, a, k, c) :
        s \in {NoneInt, 3}, n \in {NoneInt, 2}, a \in {NoneInt, 0, 1},
        k \in {NoneInt, 1}, c \in BOOLEAN}
    \cup {Policy(FALSE, 2, 1, 0, 1, FALSE)}

\* main calls cleanup_checkpoints with the configuration it just loaded
ApiCleanup ==
    /\ api.op # "cleanup"
    /\ \E policy \in Policies, all \in AllCheckpoints(files) :
        LET report == cleanup_checkpoints(files, mirrors, policy, clock, all)
        IN  /\ files' = files \ report.files_to_delete
            /\ mirrors' = mirrors \ report.mirrors_deleted
            /\ api' = [NoCall EXCEPT !.op = "cleanup", !.policy = policy, !.before = files,
                                      !.before_mirrors = mirrors, !.report = report]
    /\ UNCHANGED << clock, dirs, disk, config, subjects, history >>
    /\ UNCHANGED flow_vars

CleanupSubjects == {{PathBare, PathPlainA}}

CleanupInit ==
    /\ clock = 0
    /\ dirs = {}
    /\ files = {}
    /\ mirrors = {}
    /\ disk = DefaultDisk
    /\ config = DefaultConfig
    /\ subjects \in CleanupSubjects
    /\ history = << >>
    /\ api = NoCall
    /\ FlowIdle

CleanupNext ==
    \/ DayPasses
    \/ CleanupSave
    \/ ApiCleanup

SpecCleanup == CleanupInit /\ [][CleanupNext]_vars


\* ------------------------------------------------------------------------
\* Retention with deletions that can fail
\* ------------------------------------------------------------------------
\* the policies with at most one limit set, and the one with cleanup off
SweepPolicies ==
    {policy \in Policies :
        Cardinality({limit \in {"max_checkpoint_size_mb", "max_checkpoint_files",
                                "max_checkpoint_age_days", "keep_per_paper"} :
                        policy[limit] # NoneInt}) <= 1}
    \cup {Policy(FALSE, 2, 1, 0, 1, FALSE)}

\* a run of an earlier process saved a snapshot and its readable mirror
SweepSave ==
    /\ api.op # "cleanup"
    /\ Cardinality(files) < MaxSwept
    /\ \E paper_path \in subjects :
        \E state \in SaveInputs(paper_path, config) :
            \E identifier \in get_paper_identifier(paper_path, state.paper_content, dirs, files) :
                /\ dirs' = dirs \cup {identifier}
                /\ files' = save_checkpoint(files, state, identifier, disk, clock)
                /\ mirrors' = save_readable_checkpoint(mirrors, state, identifier, clock)
                /\ api' = [NoCall EXCEPT !.op = "save", !.path = paper_path,
                                          !.identifier = identifier]
    /\ UNCHANGED << clock, disk, config, subjects, history >>
    /\ UNCHANGED flow_vars

\* main calls cleanup_checkpoints; while it runs, some of the marked files
\* cannot be removed: another process has removed them already (vanished),
\* or the removal is refused and they stay
SweepCleanup ==
    /\ api.op # "cleanup"
    /\ \E policy \in SweepPolicies, all \in AllCheckpoints(files) :
        LET report == cleanup_checkpoints(files, mirrors, policy, clock, all)
        IN  \E failing \in SUBSET report.files_to_delete, mirror_fails, vanished \in BOOLEAN :
                LET sweep == delete_marked(report.files_to_delete, mirrors, failing,
                                           mirror_fails)
                IN  /\ files' = (files \ sweep.removed)
                                \ (IF vanished THEN failing ELSE {})
                    /\ mirrors' = mirrors \ sweep.mirrors_removed
                    /\ api' = [NoCall EXCEPT !.op = "cleanup", !.policy = policy,
                                              !.before = files, !.before_mirrors = mirrors,
                                              !.report = report, !.failing = failing,
                                              !.sweep = sweep]
    /\ UNCHANGED << clock, dirs, disk, config, subjects, history >>
    /\ UNCHANGED flow_vars

SweepNext ==
    \/ DayPasses
    \/ SweepSave
    \/ SweepCleanup

SpecSweep == CleanupInit /\ [][SweepNext]_vars

\* ------------------------------------------------------------------------
\* Saves whose readable mirror is late, missing or tampered with
\* ------------------------------------------------------------------------
\* save_checkpoint, then save_readable_checkpoint, as every call site has
\* them.  Each of the two reads the time when it builds its file name
\* (datetime.now() at lines 389 and 460) and resolves the directory itself;
\* the fingerprint of the input and the JSON document are written between
\* the two readings, so a new second may have begun by the second one.
\* save_readable_checkpoint catches what its write raises and returns None.
MirrorSave ==
    /\ api.op # "cleanup"
    /\ Len(history) < MaxSwept
    /\ \E paper_path \in subjects, elapsed \in {0, TicksPerSecond}, mirror_written \in BOOLEAN :
        /\ clock + elapsed <= MaxClock
        /\ \E state \in {input \in SaveInputs(paper_path, config) :
                            input.final_report # "" \/ input.selected_questions = << >>} :
            \E identifier \in get_paper_identifier(paper_path, state.paper_content, dirs, files) :
                LET written == save_checkpoint(files, state, identifier, disk, clock)
                IN  \E mirror_dir \in get_paper_identifier(paper_path, state.paper_content,
                                                           dirs \cup {identifier}, written) :
                        /\ dirs' = dirs \cup {identifier, mirror_dir}
                        /\ files' = written
                        /\ mirrors' = IF mirror_written
                                       THEN save_readable_checkpoint(mirrors, state, mirror_dir,
                                                                     clock + elapsed)
                                       ELSE mirrors
                        /\ history' = Append(history, SaveEvent(state, identifier, clock, "api", 0))
                        /\ api' = [NoCall EXCEPT !.op = "save", !.path = paper_path,
                                                  !.identifier = identifier]
        /\ clock' = clock + elapsed
    /\ UNCHANGED << disk, config, subjects >>
    /\ UNCHANGED flow_vars

\* a readable_*.md file is removed by hand (rewriting one changes no name)
MirrorTamper ==
    /\ api.op # "cleanup"
    /\ \E m \in mirrors :
        /\ mirrors' = mirrors \ {m}
        /\ api' = [NoCall EXCEPT !.op = "tamper", !.before_mirrors = mirrors]
    /\ UNCHANGED << clock, dirs, files, disk, config, subjects, history >>
    /\ UNCHANGED flow_vars

MirrorNext ==
    \/ MirrorSave
    \/ MirrorTamper
    \/ (api.op # "cleanup" /\ ApiLoadLatest)
    \/ ApiCleanup

SpecMirror == CleanupInit /\ [][MirrorNext]_vars

\* ------------------------------------------------------------------------
\* The identifier resolver called for subjects without an arXiv ID
\* ------------------------------------------------------------------------
\* api.resolved keeps, per input file, the identifier the last call for it
\* resolved; api.previous is what it was before the call
Resolved(call, paper_path, identifier) ==
    [call EXCEPT !.path = paper_path, !.identifier = identifier,
                 !.resolved = [api.resolved EXCEPT ![Abspath(paper_path)] = identifier],
                 !.previous = api.resolved[Abspath(paper_path)]]

\* get_paper_identifier as find_latest_checkpoint and list_checkpoints call
\* it (no content) or with the paper's text
ResolveLookup ==
    /\ \E paper_path \in subjects :
        \E paper_content \in {NoContent, ParsePdf(paper_path)} :
            \E identifier \in get_paper_identifier(paper_path, paper_content, dirs, files) :
                api' = Resolved([NoCall EXCEPT !.op = "resolve"], paper_path, identifier)
    /\ UNCHANGED << clock, dirs, files, mirrors, disk, config, subjects, history >>
    /\ UNCHANGED flow_vars

\* save_checkpoint resolves the identifier, creates the directory and writes
ResolveSave ==
    /\ Len(history) < MaxSwept
    /\ \E paper_path \in subjects :
        \E state \in SaveInputs(paper_path, config) :
            /\ Save(state, clock, "api", 0)
            /\ api' = Resolved([NoCall EXCEPT !.op = "save"], paper_path,
                               history'[Len(history')].identifier)
    /\ UNCHANGED << clock, disk, config, subjects >>
    /\ UNCHANGED flow_vars

ResolveSubjects == {{PathPlainA, PathPlainB, PathPlainAlias}}

ResolveInit ==
    /\ clock = 0
    /\ dirs = {}
    /\ files = {}
    /\ mirrors = {}
    /\ disk = DefaultDisk
    /\ config = DefaultConfig
    /\ subjects \in ResolveSubjects
    /\ history = << >>
    /\ api = NoCall
    /\ FlowIdle

ResolveNext ==
    \/ Tick
    \/ ResolveLookup
    \/ ResolveSave

SpecResolve == ResolveInit /\ [][ResolveNext]_vars

\* ------------------------------------------------------------------------
\* save_checkpoint step by step, with storage failures and interruption
\* ------------------------------------------------------------------------
\* a process starts (mode "fresh": it runs and saves from time to time)
FaultStart ==
    /\ mode \in {"idle", "failed"}
    /\ runs < MaxRuns
    /\ mode' = "fresh"
    /\ runs' = runs + 1
    /\ UNCHANGED << clock, dirs, files, mirrors, disk, config, subjects, history, api >>
    /\ UNCHANGED << node, graph_state, current_state, resume_state, final_state,
                    checkpoint_state, calls, done >>

\* the file as open(checkpoint_file, 'w') leaves it: created or truncated,
\* nothing written yet
Opened(existing, state, identifier, now) ==
    {IF SameName(f, identifier, get_checkpoint_stage(state), Timestamp(now))
     THEN [f EXCEPT !.complete = FALSE] ELSE f :
        f \in save_checkpoint(existing, state, identifier, disk, now)}

\* save_checkpoint up to the open: the directory is created and the file
\* opened, or one of the two raises, the exception is caught and logged and
\* None is returned to the caller, which goes on
SaveOpen ==
    /\ mode = "fresh"
    /\ Len(history) < MaxSaves
    /\ \E paper_path \in subjects :
        \E state \in SaveInputs(paper_path, config) :
            \E identifier \in get_paper_identifier(paper_path, state.paper_content, dirs, files) :
                \E opened \in BOOLEAN :
                    IF opened
                    THEN /\ dirs' = dirs \cup {identifier}
                         /\ files' = Opened(files, state, identifier, clock)
                         /\ history' = Append(history,
                                SaveEvent(state, identifier, clock, "pending", 0))
                         /\ api' = [NoCall EXCEPT !.op = "saving", !.path = paper_path,
                                                   !.identifier = identifier]
                         /\ mode' = "saving"
                    ELSE /\ history' = Append(history,
                                SaveEvent(state, identifier, clock, "error", 0))
                         /\ api' = [NoCall EXCEPT !.op = "save", !.path = paper_path,
                                                   !.identifier = identifier, !.found = FALSE]
                         /\ UNCHANGED << dirs, files, mode >>
    /\ UNCHANGED << clock, mirrors, disk, config, subjects >>
    /\ UNCHANGED << node, graph_state, current_state, resume_state, final_state,
                    checkpoint_state, calls, done, runs >>

\* the save in progress and its file
Pending == history[Len(history)]
IsPending(f) == SameName(f, Pending.identifier, Pending.stage, Timestamp(Pending.time))

\* json.dump and the close: the document is written and the path returned,
\* or the write raises (the file stays as far as it got), the exception is
\* caught and None returned.  Either way the caller goes on.
SaveClose ==
    /\ mode = "saving"
    /\ \E written \in BOOLEAN :
        /\ files' = {IF IsPending(f) THEN [f EXCEPT !.complete = written, !.mtime = clock]
                     ELSE f : f \in files}
        /\ history' = [history EXCEPT ![Len(history)].cause =
                            IF written THEN "written" ELSE "error"]
        /\ api' = [NoCall EXCEPT !.op = "save", !.path = Pending.path,
                                  !.identifier = Pending.identifier, !.found = written]
    /\ mode' = "fresh"
    /\ UNCHANGED << clock, dirs, mirrors, disk, config, subjects >>
    /\ UNCHANGED << node, graph_state, current_state, resume_state, final_state,
                    checkpoint_state, calls, done, runs >>

\* the process is killed between the open and the end of the write
Interrupt ==
    /\ mode = "saving"
    /\ mode' = "failed"
    /\ history' = [history EXCEPT ![Len(history)].cause = "interrupted"]
    /\ api' = [NoCall EXCEPT !.op = "interrupted", !.path = Pending.path,
                              !.identifier = Pending.identifier]
    /\ UNCHANGED << clock, dirs, files, mirrors, disk, config, subjects >>
    /\ UNCHANGED << node, graph_state, current_state, resume_state, final_state,
                    checkpoint_state, calls, done, runs >>

FaultSubjects == {{PathBare}, {PathPlainA}}

FaultInit ==
    /\ clock = 0
    /\ dirs = {}
    /\ files = {}
    /\ mirrors = {}
    /\ disk = DefaultDisk
    /\ config = DefaultConfig
    /\ subjects \in FaultSubjects
    /\ history = << >>
    /\ api = NoCall
    /\ FlowIdle

\* ApiLoadLatest is a second process: it may run at any moment
FaultNext ==
    \/ FaultStart
    \/ Tick
    \/ SaveOpen
    \/ SaveClose
    \/ Interrupt
    \/ ApiLoadLatest

SpecFault == FaultInit /\ [][FaultNext]_vars

\* ------------------------------------------------------------------------
\* main's resume gate: selection of a checkpoint, consistency check, start
\* ------------------------------------------------------------------------
GateConfigs ==
    {[DefaultConfig EXCEPT !.models = m, !.num_questions = n] :
        m \in {"analyzer=A;reviewer=B", "analyzer=C;reviewer=B"},
        n \in {NoneInt, 2}}

GateSubjects == {{PathBare, PathPlainA}}

\* an earlier process saved a snapshot, or was killed while writing it
GateSave ==
    /\ mode = "idle"
    /\ history = << >>
    /\ \E paper_path \in subjects :
        \E state \in SaveInputs(paper_path, config) :
            \E written \in BOOLEAN :
                IF written
                THEN Save(state, clock, "api", 0)
                ELSE \E identifier \in get_paper_identifier(paper_path, state.paper_content,
                                                            dirs, files) :
                        /\ dirs' = dirs \cup {identifier}
                        /\ files' = Opened(files, state, identifier, clock)
                        /\ history' = Append(history,
                                SaveEvent(state, identifier, clock, "interrupted", 0))
                        /\ UNCHANGED mirrors
    /\ api' = [NoCall EXCEPT !.op = "save"]
    /\ UNCHANGED << clock, disk, config, subjects >>
    /\ UNCHANGED flow_vars

\* between the processes the operator edits config.yaml or the input file
GateEdit ==
    /\ mode = "idle"
    /\ \/ /\ \E edited \in GateConfigs : edited # config /\ config' = edited
          /\ UNCHANGED disk
       \/ /\ \E paper_path \in subjects, edited \in DiskStates :
                /\ edited # disk[Abspath(paper_path)]
                /\ edited.exists
                /\ disk' = [disk EXCEPT ![Abspath(paper_path)] = edited]
          /\ UNCHANGED config
    /\ UNCHANGED << clock, dirs, files, mirrors, subjects, history, api >>
    /\ UNCHANGED flow_vars

\* the command line: --checkpoint FILE, --resume, or neither
Requests == {"checkpoint", "resume", "auto"}

\* the files list_checkpoints shows for the paper
ListedFiles(identifier, dirs_now, files_now) ==
    IF identifier \in dirs_now
    THEN {f \in files_now : f.dir = identifier /\ f.complete}
    ELSE {}

\* checkpoint_file after the three branches of the selection; NoFile is
\* None (nothing found, or the user answered 0 to the list)
SelectCheckpoint(request, paper_path, dirs_now, files_now) ==
    CASE request = "checkpoint" -> files_now
      [] request = "resume" -> find_latest_checkpoint(paper_path, dirs_now, files_now)
      [] request = "auto" ->
            {NoFile} \cup
            UNION {ListedFiles(identifier, dirs_now, files_now) :
                    identifier \in get_paper_identifier(paper_path, NoContent,
                                                        dirs_now, files_now)}

\* verify_checkpoint_consistency as handle_checkpoint_consistency calls
\* it: a file that cannot be loaded is reported as one difference
VerifyFile(checkpoint_file, paper_path, current_config, on_disk) ==
    IF load_checkpoint(checkpoint_file) = NoSnapshot
    THEN [is_consistent |-> FALSE, differences |-> << "unloadable" >>]
    ELSE verify_checkpoint_consistency(load_checkpoint(checkpoint_file), paper_path,
                                       current_config, on_disk)

handle_checkpoint_consistency_unasked(checkpoint_file, paper_path, current_config, on_disk, answer) ==
    TRUE

\* handle_checkpoint_consistency: True when the verdict is true, else the
\* user's answer to "use this checkpoint anyway? (y/n)"
handle_checkpoint_consistency(checkpoint_file, paper_path, current_config, on_disk, answer) ==
    LET report == VerifyFile(checkpoint_file, paper_path, current_config, on_disk)
    IN  IF report.is_consistent THEN TRUE ELSE answer = "y"

\* main from the selection of the checkpoint to the first step of
\* run_workflow or resume_workflow
MainResumeGate ==
    /\ mode = "idle"
    /\ runs < MaxRuns
    /\ \E request \in Requests, answer \in {"y", "n"} :
        \E paper_path \in {p \in subjects : disk[Abspath(p)].exists} :
            \E checkpoint_file \in SelectCheckpoint(request, paper_path, dirs, files) :
                LET selected == checkpoint_file # NoFile
                    report == VerifyFile(checkpoint_file, paper_path, config, disk)
                    should_resume ==
                        /\ selected
                        /\ handle_checkpoint_consistency(checkpoint_file, paper_path,
                                                         config, disk, answer)
                    checkpoint == load_checkpoint(checkpoint_file)
                    branch == ResumeBranch(checkpoint)
                    loaded == ResumeState(checkpoint)
                    advanced == [loaded EXCEPT !.current_question_id = @ + 1,
                                               !.current_round = @ + 1]
                    initial_state == create_initial_state(paper_path, ParsePdf(paper_path),
                                                          config)
                IN  /\ api' = [NoCall EXCEPT
                                !.op = "gate", !.path = paper_path, !.request = request,
                                !.found = selected,
                                !.identifier = checkpoint_file.dir,
                                !.data = IF selected THEN checkpoint ELSE NoSnapshot,
                                !.verdict = (selected /\ report.is_consistent),
                                !.entries = IF selected THEN report.differences ELSE << >>,
                                !.answer = IF selected /\ ~report.is_consistent
                                           THEN answer ELSE ""]
                    /\ IF should_resume /\ checkpoint = NoSnapshot
                       THEN \* load_checkpoint returned None: sys.exit(1)
                            /\ mode' = "failed"
                            /\ UNCHANGED << node, graph_state, current_state, resume_state,
                                            checkpoint_state >>
                       ELSE IF should_resume
                       THEN /\ checkpoint_state' = checkpoint
                            /\ mode' = branch
                            /\ resume_state' = IF branch = "resume_stream"
                                               THEN advanced ELSE loaded
                            /\ graph_state' = resume_state'
                            /\ current_state' = IF branch = "resume_stream"
                                                THEN advanced ELSE NoState
                            /\ node' = IF branch = "resume_integrate"
                                       THEN "integrate_report" ELSE EntryPoint
                       ELSE /\ checkpoint_state' = NoSnapshot
                            /\ mode' = "fresh"
                            /\ resume_state' = NoState
                            /\ graph_state' = initial_state
                            /\ current_state' = initial_state
                            /\ node' = EntryPoint
    /\ runs' = runs + 1
    /\ UNCHANGED << clock, dirs, files, mirrors, disk, config, subjects, history >>
    /\ UNCHANGED << final_state, calls, done >>

GateInit ==
    /\ clock = 0
    /\ dirs = {}
    /\ files = {}
    /\ mirrors = {}
    /\ disk = DefaultDisk
    /\ config \in GateConfigs
    /\ subjects \in GateSubjects
    /\ history = << >>
    /\ api = NoCall
    /\ FlowIdle

GateNext ==
    \/ GateSave
    \/ GateEdit
    \/ MainResumeGate

SpecGate == GateInit /\ [][GateNext]_vars

\* ------------------------------------------------------------------------
\* Properties
\* ------------------------------------------------------------------------
IsPrefix(s, t) == Len(s) <= Len(t) /\ \A i \in 1..Len(s) : s[i] = t[i]

Resumed == checkpoint_state # NoSnapshot

HasStructure(checkpoint) == checkpoint.paper_structure # ""
HasQuestions(checkpoint) == Len(checkpoint.selected_questions) > 0

\* C1 - Resume correctness: a run resumed from a snapshot with structure and
\* questions present, 3 items in total and item 1 the last completed one
\* (its verification is the snapshot's last log entry, the cursor is 1)
\* hands the answering stage of item 2 to the executor first.
C1_ResumeStartsAtItemTwo ==
    ( /\ Resumed
      /\ HasStructure(checkpoint_state) /\ HasQuestions(checkpoint_state)
      /\ checkpoint_state.total_questions = 3
      /\ checkpoint_state.current_question_id = 1
      /\ \E i \in 1..Len(checkpoint_state.messages) :
            checkpoint_state.messages[i] = Message("reviewer", 1, 1)
      /\ calls # << >> )
    => calls[1].stage = "answer_question" /\ calls[1].question_id = 2

\* a stage whose output the snapshot already records
Recorded(call, checkpoint) ==
    \/ call.stage = "analyze_structure" /\ HasStructure(checkpoint)
    \/ call.stage = "select_questions" /\ HasQuestions(checkpoint)
    \/ /\ call.stage \in {"answer_question", "verify_answer"}
       /\ HasStructure(checkpoint) /\ HasQuestions(checkpoint)
       /\ call.question_id >= 1
       /\ call.question_id <= checkpoint.current_question_id

\* C2 - No repeated completed work: a resumed run never hands the executor a
\* stage whose output is already recorded in the snapshot it resumed from.
C2_NoRepeatedWork ==
    Resumed => \A i \in 1..Len(calls) : ~Recorded(calls[i], checkpoint_state)

\* C3 - Failure persistence: when a stage fails (checkpoints enabled) in a
\* run that has completed at least one stage, the last thing the run did was
\* to save a snapshot of the state accumulated so far: it records the
\* structure, the questions, the cursor and the report that the completed
\* stages produced.  (The message log of a snapshot is the subject of C8.)
Progress(state) ==
    [k \in StateFields \ {"messages"} |-> state[k]]

C3_FailurePersisted ==
    (mode = "failed" /\ config.enable_checkpoints /\ Completed(calls) > 0)
    => /\ history # << >>
       /\ history[Len(history)].cause = "failure"
       /\ Progress(history[Len(history)].state) = Progress(graph_state)

\* C4 - Cursor invariant: the cursor never points behind an item the log
\* records, and integration is only ever started after every item 1..N has
\* been answered and verified.
CursorNotBehindLog ==
    mode \in RunningModes =>
        \A i \in 1..Len(graph_state.messages) :
            graph_state.messages[i].question_id <= graph_state.current_question_id

NoStageSkipped ==
    (\E i \in 1..Len(calls) : calls[i].stage = "integrate_report")
    => \A q \in 1..graph_state.total_questions :
          /\ [stage |-> "answer_question", question_id |-> q] \in done
          /\ [stage |-> "verify_answer", question_id |-> q] \in done

C4_CursorInvariant == CursorNotBehindLog /\ NoStageSkipped

\* C8 - Append-only log: within a run, the messages of each snapshot extend
\* the messages of the snapshot written before it.
C8_LogAppendOnly ==
    \A i \in 1..(Len(history) - 1) :
        IsPrefix(history[i].state.messages, history[i + 1].state.messages)

\* C9 - Snapshot lifecycle: with checkpoints enabled, in a fresh or resumed
\* run the newest snapshot always covers every stage completed so far, a run
\* that failed ended with a snapshot, and so did a run that exited normally.
C9_SnapshotAfterEveryStage ==
    config.enable_checkpoints =>
        /\ (mode \in RunningModes \cup {"returned", "done"} /\ Completed(calls) > 0)
            => /\ history # << >>
               /\ history[Len(history)].completed = Completed(calls)
        /\ mode = "failed"
            => history # << >> /\ history[Len(history)].cause = "failure"
        /\ mode = "done"
            => history # << >> /\ history[Len(history)].cause = "main"

\* the saves of one subject, and the files that hold its snapshots
SavesOf(paper_path) ==
    {i \in 1..Len(history) : Abspath(history[i].path) = Abspath(paper_path)}

\* C5 - Snapshot monotonicity (load): loadLatest after a save returns the
\* snapshot that save wrote - it finds one, and its PipelineState fields are
\* those of the state just saved.
C5_LoadLatestReturnsLastSave ==
    ( /\ api.op = "load"
      /\ history # << >>
      /\ Abspath(history[Len(history)].path) = Abspath(api.path) )
    => api.found /\ Fields(api.data) = history[Len(history)].state

\* C6 - Snapshot monotonicity (list): a listing of a subject's directory
\* after N saves has N entries, in strictly decreasing recency order.
C6_ListReturnsEverySave ==
    (api.op = "list" /\ api.found)
    => /\ Len(api.entries) = Cardinality(SavesOf(api.path))
       /\ \A i \in 1..(Len(api.entries) - 1) : api.entries[i].mtime > api.entries[i + 1].mtime

\* C7 - Stable identity: every save, find-latest and list call for a
\* subject resolves to the identifier its saves were filed under.
C7_StableIdentity ==
    api.op \in {"save", "load", "list"}
    => \A i \in SavesOf(api.path) : history[i].identifier = api.identifier

\* C10 - Consistency of an unchanged run: when path, input file and
\* configuration at verify time are those of save time, the verdict is true
\* and the difference list is empty.
C10_UnchangedIsConsistent ==
    ( /\ api.op = "verify"
      /\ history # << >>
      /\ Abspath(api.path) = Abspath(history[1].path)
      /\ history[1].config = config
      /\ history[1].metadata = get_pdf_metadata(disk, api.path) )
    => api.found /\ api.entries = << >>

\* a completed snapshot: it holds the final report, or its cursor has
\* reached the number of questions
CompletedSnapshot(f) ==
    /\ f.complete
    /\ \/ f.data.final_report # ""
       \/ f.data.current_question_id >= f.data.total_questions

SizeOf(json_files, md_files) == get_dir_size(json_files, md_files)

\* C12 - Protect-completed: a cleanup run with keep_completed set leaves
\* every completed snapshot of the store in place, whatever limits are set.
C12_ProtectCompleted ==
    (api.op = "cleanup" /\ api.policy.keep_completed)
    => \A f \in api.before : CompletedSnapshot(f) => f \in files

\* a cleanup with keep_completed and all four limits set that deleted a
\* snapshot, kept a completed one and left the size limit unmet
C12_Witness ==
    /\ api.op = "cleanup" /\ api.policy.keep_completed
    /\ api.policy.max_checkpoint_size_mb # NoneInt /\ api.policy.max_checkpoint_files # NoneInt
    /\ api.policy.max_checkpoint_age_days # NoneInt /\ api.policy.keep_per_paper # NoneInt
    /\ api.report.files_to_delete # {}
    /\ \E f \in files : CompletedSnapshot(f)
    /\ SizeOf(files, mirrors) > api.policy.max_checkpoint_size_mb

\* what deleting the snapshots `deleted` frees: the files and their mirrors
FreedBy(deleted) ==
    SumSizes(deleted) + Cardinality(PairedMirrors(api.before_mirrors, deleted)) * MirrorSize(NoFile)

OnlySizePolicy(policy) ==
    /\ policy.auto_cleanup /\ ~policy.keep_completed
    /\ policy.max_checkpoint_size_mb # NoneInt
    /\ policy.max_checkpoint_files = NoneInt
    /\ policy.max_checkpoint_age_days = NoneInt
    /\ policy.keep_per_paper = NoneInt

\* C13 - Retention size bound: with only the size limit set and
\* keep_completed off, a cleanup of a store over the limit deletes the
\* oldest snapshots, no more of them than the overage requires (without
\* the newest deleted one the overage is not covered), and the store
\* is within the limit afterwards.
C13_SizeBound ==
    ( /\ api.op = "cleanup" /\ OnlySizePolicy(api.policy)
      /\ SizeOf(api.before, api.before_mirrors) > api.policy.max_checkpoint_size_mb )
    => LET deleted == api.report.files_to_delete
           overage == SizeOf(api.before, api.before_mirrors) - api.policy.max_checkpoint_size_mb
       IN  /\ \A f \in deleted, g \in api.before \ deleted : f.mtime <= g.mtime
           /\ \A f \in deleted :
                (\A g \in deleted : g.mtime <= f.mtime) => FreedBy(deleted \ {f}) < overage
           /\ SizeOf(files, mirrors) <= api.policy.max_checkpoint_size_mb

\* C14 - Global count policy counts only what remains: when the count step
\* marks a snapshot, the snapshots left unmarked after it are still at
\* least max_checkpoint_files.
C14_CountOnlyRemaining ==
    ( /\ api.op = "cleanup" /\ api.policy.auto_cleanup
      /\ api.policy.max_checkpoint_files # NoneInt )
    => ( api.report.by_count # api.report.by_paper
         => Cardinality(api.before) - Cardinality(api.report.by_count)
                >= api.policy.max_checkpoint_files )

\* C15 - Cleanup next to an active run: every snapshot a cleanup deletes is
\* strictly older than another snapshot of the same directory.
C15_CleanupKeepsNewest ==
    api.op = "cleanup"
    => \A f \in api.report.files_to_delete :
          \E g \in api.before : g.dir = f.dir /\ g.mtime > f.mtime

\* C16 - Fallback identity idempotence: two different input files without
\* an arXiv ID never hold the same custom_N identity, and a call for a file
\* that was resolved before returns the identity it had.
C16_FallbackIdentity ==
    /\ \A p, q \in {Abspath(x) : x \in subjects} :
          (p # q /\ api.resolved[p] # NoId /\ api.resolved[q] # NoId)
          => api.resolved[p] # api.resolved[q]
    /\ (api.op \in {"resolve", "save"} /\ api.previous # NoId)
          => api.identifier = api.previous

\* C17 - Write-once snapshots: the file every save_checkpoint call wrote is
\* still there as that call wrote it (same name, same modification time,
\* same content).
C17_WriteOnce ==
    \A i \in 1..Len(history) :
        \E f \in files :
            /\ SameName(f, history[i].identifier, history[i].stage, Timestamp(history[i].time))
            /\ f.mtime = history[i].time
            /\ f.complete /\ Fields(f.data) = history[i].state

\* the last save of the subject that returned a file
GoodSaves(paper_path) ==
    {i \in SavesOf(paper_path) : history[i].cause = "written"}

FaultHappened ==
    \E i \in 1..Len(history) : history[i].cause \in {"error", "interrupted"}

\* C11 - Fatal errors keep the last good snapshot usable: once a save has
\* failed or was interrupted, and no write is in progress, loadLatest finds
\* and loads the snapshot of the subject's last successful save.
C11_LastGoodSnapshotLoads ==
    ( /\ api.op = "load" /\ mode # "saving"
      /\ FaultHappened
      /\ GoodSaves(api.path) # {} )
    => /\ api.found
       /\ Fields(api.data) = history[SetMax(GoodSaves(api.path))].state

\* C18 - Atomic snapshot visibility: the file loadLatest picks is never a
\* partially written one.
C18_NoPartialSnapshotVisible ==
    api.op = "load" => ~api.partial

\* C19 - Storage errors are fatal for save: after a save_checkpoint call
\* that failed to create the directory or to write the file, the calling
\* run does not go on.
C19_StorageErrorStopsCaller ==
    (api.op = "save" /\ ~api.found) => mode \notin {"fresh", "saving"}

\* the run proceeds from a snapshot: resume_workflow was entered with it
FromSnapshot ==
    \/ mode \in {"resume_invoke", "resume_stream", "resume_integrate"}
    \/ Resumed
    \/ resume_state # NoState

\* the pipeline is at its start with a fresh initial state of the paper
\* given on the command line
FreshStart ==
    LET initial_state == create_initial_state(api.path, ParsePdf(api.path), config)
    IN  /\ mode = "fresh"
        /\ node = EntryPoint
        /\ graph_state = initial_state
        /\ current_state = initial_state
        /\ resume_state = NoState
        /\ checkpoint_state = NoSnapshot
        /\ calls = << >>

\* C20: a run proceeds from a snapshot only if the consistency check
\* returned verdict true or the user accepted the reported differences;
\* with no snapshot, or an inconsistent snapshot the user rejected, the
\* pipeline starts at its entry point with a fresh initial state that holds
\* nothing of the snapshot.
C20_ResumeGate ==
    api.op = "gate"
    => /\ FromSnapshot => (api.found /\ (api.verdict \/ api.answer = "y"))
       /\ (~api.found \/ (~api.verdict /\ api.answer = "n")) => FreshStart

\* an inconsistent snapshot with recorded progress was rejected and the run
\* started afresh
C20_Witness ==
    /\ api.op = "gate"
    /\ api.found /\ ~api.verdict /\ api.answer = "n"
    /\ api.data.paper_structure # ""
    /\ Len(api.data.messages) > 0
    /\ FreshStart

\* the verified file was loaded, and the subset of the configuration that
\* save_checkpoint recorded in it (models, workflow) differs from the same
\* subset of the current configuration
RecordedSubsetDiffers ==
    \/ api.data.config_snapshot.models # config.models
    \/ api.data.config_snapshot.num_questions # config.num_questions
    \/ api.data.config_snapshot.max_followup # config.max_followup

\* C21: whenever the recorded model/workflow subset of the snapshot is not
\* equal to the same subset of the current configuration, for a change of
\* any of its keys, the verification reports a difference.
C21_ConfigSubsetEquality ==
    (api.op = "verify" /\ api.data # NoSnapshot /\ RecordedSubsetDiffers)
    => (~api.found /\ Len(api.entries) > 0)

\* the one snapshot written before the verification, as save_checkpoint
\* was called for it
SavedRun == history[1]

\* C22: if the configured number of questions differs between the save and
\* the verification, the verdict is false and the difference list has an
\* entry naming that field.
C22_ItemCountChangeDetected ==
    ( /\ api.op = "verify" /\ history # << >>
      /\ api.data # NoSnapshot
      /\ SavedRun.config.num_questions # config.num_questions )
    => /\ ~api.found
       /\ \E i \in 1..Len(api.entries) : api.entries[i] = "num_questions"

\* the number of questions was changed and nothing else: the report is
\* false with that one entry
C22_Witness ==
    /\ api.op = "verify" /\ history # << >>
    /\ SavedRun.config.num_questions = 2
    /\ config.num_questions = NoneInt
    /\ ~api.found
    /\ api.entries = << "num_questions" >>

\* the checks of the verifier on the loaded snapshot and the current run,
\* each stated on its own
PathCheckFails == Abspath(api.data.paper_path) # Abspath(api.path)
FingerprintsAvailable ==
    api.data.pdf_metadata.present /\ get_pdf_metadata(disk, api.path).present
SizeCheckFails ==
    FingerprintsAvailable
    /\ api.data.pdf_metadata.size # get_pdf_metadata(disk, api.path).size
HashCheckFails ==
    /\ FingerprintsAvailable
    /\ api.data.pdf_metadata.hash # "" /\ get_pdf_metadata(disk, api.path).hash # ""
    /\ api.data.pdf_metadata.hash # get_pdf_metadata(disk, api.path).hash
ModelsCheckFails == api.data.config_snapshot.models # config.models
CountCheckFails == api.data.config_snapshot.num_questions # config.num_questions
EndpointCheckFails == api.data.config_snapshot.base_url # config.base_url

Reported(entry) == Cardinality({i \in 1..Len(api.entries) : api.entries[i] = entry})

\* C23: for a loadable snapshot every check of the verifier contributes its
\* own entry exactly when that check fails, whatever the other checks find;
\* a size mismatch and a hash mismatch together give two entries.
C23_NoShortCircuit ==
    (api.op = "verify" /\ api.data # NoSnapshot)
    => /\ Reported("paper_path") = (IF PathCheckFails THEN 1 ELSE 0)
       /\ Reported("pdf_size") = (IF SizeCheckFails THEN 1 ELSE 0)
       /\ Reported("pdf_hash") = (IF HashCheckFails THEN 1 ELSE 0)
       /\ Reported("models") = (IF ModelsCheckFails THEN 1 ELSE 0)
       /\ Reported("num_questions") = (IF CountCheckFails THEN 1 ELSE 0)
       /\ Reported("base_url") = (IF EndpointCheckFails THEN 1 ELSE 0)
       /\ Len(api.entries) = Reported("paper_path") + Reported("pdf_size")
                             + Reported("pdf_hash") + Reported("models")
                             + Reported("num_questions") + Reported("base_url")

\* the input file and the configuration were both edited: the size, hash,
\* models, question count and endpoint checks fail together and the report
\* lists the five entries
C23_Witness ==
    /\ api.op = "verify" /\ api.data # NoSnapshot
    /\ SizeCheckFails /\ HashCheckFails
    /\ ModelsCheckFails /\ CountCheckFails /\ EndpointCheckFails
    /\ api.entries = << "pdf_size", "pdf_hash", "models", "num_questions", "base_url" >>

\* C24: a label of the form 'item i attempt k' names the current item i and
\* k is the number of attempt records of that same item i in the log of the
\* state that was saved.
C24_StageLabelCountsItsItem ==
    \A n \in 1..Len(history) :
        LET saved == history[n]
        IN  ( /\ saved.stage.kind = "q"
              /\ saved.state.final_report = ""
              /\ saved.state.paper_structure # ""
              /\ Len(saved.state.selected_questions) > 0
              /\ saved.state.current_question_id < saved.state.total_questions )
            => saved.stage.a = CountAnswers(saved.state.messages, saved.stage.q)

\* C25: in a fresh run of a subject on an empty store, the first snapshot
\* written has the label of the state with no stage output yet ('q0a0') and
\* lies in the directory of the subject's resolved identifier.
C25_FirstSaveIsStageZero ==
    (runs = 1 /\ ~Resumed /\ history # << >>)
    => /\ history[1].stage = StageQA(0, 0)
       /\ history[1].identifier \in
            get_paper_identifier(history[1].path, ParsePdf(history[1].path), {}, {})

\* the stages of a complete fresh run over N items, in order, as handed to
\* the executor
ExpectedCalls(N) ==
    [k \in 1..(2 * N + 3) |->
        IF k = 1 THEN [stage |-> "analyze_structure", question_id |-> 0, ok |-> TRUE]
        ELSE IF k = 2 THEN [stage |-> "select_questions", question_id |-> 0, ok |-> TRUE]
        ELSE IF k = 2 * N + 3 THEN [stage |-> "integrate_report", question_id |-> N, ok |-> TRUE]
        ELSE [stage |-> IF k % 2 = 1 THEN "answer_question" ELSE "verify_answer",
              question_id |-> (k - 1) \div 2, ok |-> TRUE]]

\* a fresh run in which no stage has raised
FreshRunNoFailure ==
    /\ runs >= 1 /\ ~Resumed
    /\ mode \in {"fresh", "returned", "done"}
    /\ \A k \in 1..Len(calls) : calls[k].ok

Unprotected(d) ==
    {f \in api.before : f.dir = d /\ ~(api.policy.keep_completed /\ CompletedSnapshot(f))}

OnlyPerPaperPolicy(policy) ==
    /\ policy.auto_cleanup
    /\ policy.keep_per_paper # NoneInt
    /\ policy.max_checkpoint_size_mb = NoneInt
    /\ policy.max_checkpoint_files = NoneInt
    /\ policy.max_checkpoint_age_days = NoneInt

OlderThanMaxAge(f) == clock - f.mtime > api.policy.max_checkpoint_age_days * TicksPerDay

C30_DeletionFailureTolerated ==
    (api.op = "cleanup" /\ api.failing # {})
    => /\ \A f \in api.report.files_to_delete \ api.failing : f \notin files
       /\ api.sweep.deleted_files =
            Cardinality(api.report.files_to_delete \ api.failing)
       /\ api.sweep.freed_bytes =
            SumSizes(api.report.files_to_delete \ api.failing)
            + Cardinality(api.before_mirrors \ mirrors) * MirrorSize(NoFile)

\* one marked snapshot could not be removed and stays, another was removed
\* and counted
C30_Witness ==
    /\ api.op = "cleanup"
    /\ \E f \in api.failing : f \in files
    /\ \E g \in api.report.files_to_delete \ api.failing : g \notin files
    /\ api.sweep.deleted_files = 1
    /\ api.sweep.freed_bytes > 0

NoLimits(policy) ==
    /\ policy.max_checkpoint_size_mb = NoneInt
    /\ policy.max_checkpoint_files = NoneInt
    /\ policy.max_checkpoint_age_days = NoneInt
    /\ policy.keep_per_paper = NoneInt

\* C29: cleanup with auto_cleanup unset, or with auto_cleanup set and none
\* of the four limits configured, removes nothing, returns zero counts and
\* leaves the store as it was.
C29_CleanupNoOp ==
    (api.op = "cleanup" /\ (~api.policy.auto_cleanup \/ NoLimits(api.policy)))
    => /\ files = api.before
       /\ mirrors = api.before_mirrors
       /\ api.report.files_to_delete = {}
       /\ api.sweep.deleted_files = 0
       /\ api.sweep.freed_bytes = 0

\* auto_cleanup is off while every limit is set and exceeded by a store of
\* snapshots more than a day old: nothing was removed
C29_Witness ==
    /\ api.op = "cleanup" /\ ~api.policy.auto_cleanup /\ ~NoLimits(api.policy)
    /\ Cardinality(api.before) > api.policy.max_checkpoint_files
    /\ SizeOf(api.before, api.before_mirrors) > api.policy.max_checkpoint_size_mb
    /\ \E f \in api.before : clock - f.mtime > api.policy.max_checkpoint_age_days * TicksPerDay
    /\ files = api.before /\ mirrors = api.before_mirrors

\* the readable file m can be the one written by the save that wrote the
\* snapshot f: same directory and label, named in the second of f's name or
\* in the next one, and no snapshot that is still there has m's name
WrittenWith(m, f) ==
    /\ m.dir = f.dir
    /\ m.stage = f.stage
    /\ m.timestamp \in {f.timestamp, f.timestamp + 1}
    /\ ~\E g \in files : SameName(m, g.dir, g.stage, g.timestamp)

\* C31: Paired mirror deletion: after cleanup_checkpoints has deleted a
\* snapshot, the readable mirror written by the same save is deleted too,
\* so that no mirror is left behind without its snapshot.
C31_PairedMirrorDeletion ==
    api.op = "cleanup" =>
        \A f \in api.report.files_to_delete :
            \A m \in api.before_mirrors : WrittenWith(m, f) => m \notin mirrors

\* a snapshot that policy 1 marks and that the scan of a later policy
\* selects again
SelectedTwice(f) ==
    /\ f \in api.report.by_age
    /\ \E all \in AllCheckpoints(api.before) : f \in MarkPerPaper(all, api.policy, {})

\* C32: Single marking: across the four policies of cleanup_checkpoints a
\* snapshot enters files_to_delete at most once; the list holds exactly
\* the marked snapshots, all of them present at the start of the sweep, and
\* deleted_files does not exceed the number of snapshots present then.
C32_SingleMarking ==
    api.op = "cleanup" =>
        /\ \A f \in BagToSet(api.report.appended) : CopiesIn(f, api.report.appended) = 1
        /\ BagToSet(api.report.appended) = api.report.files_to_delete
        /\ api.report.files_to_delete \subseteq api.before
        /\ api.report.deleted_files = BagCardinality(api.report.appended)
        /\ api.report.deleted_files <= Cardinality(api.before)

C32_Witness ==
    /\ api.op = "cleanup"
    /\ api.policy.auto_cleanup
    /\ \E f \in api.before : SelectedTwice(f) /\ f \notin files
    /\ Cardinality(api.report.by_count \ api.report.by_paper) > 0

\* the snapshot the last save wrote
LastSaved == history[Len(history)]
LastSnapshot ==
    {f \in files : /\ SameName(f, LastSaved.identifier, LastSaved.stage,
                                Timestamp(LastSaved.time))
                    /\ f.complete
                    /\ f.mtime = LastSaved.time
                    /\ Fields(f.data) = LastSaved.state}

\* the readable files that carry the name of the snapshot f
MirrorsNamed(f) == {m \in mirrors : SameName(m, f.dir, f.stage, f.timestamp)}

\* what find_latest_checkpoint + load_checkpoint give when the directories
\* hold the snapshots only
LoadedWithoutMirrors(identifier) ==
    LET latest == FindLatestIn(identifier, dirs, files)
    IN  IF latest # NoFile THEN load_checkpoint(latest) ELSE NoSnapshot

\* C33: Mirror independence: a save whose readable mirror could not be
\* written (or was written under a later name) has still written its
\* snapshot, and the result of find_latest_checkpoint + load_checkpoint is
\* the one the snapshots alone determine, whichever readable files are
\* there, missing or removed.
C33_MirrorIndependence ==
    /\ api.op = "save" => LastSnapshot # {}
    /\ api.op = "load" =>
            /\ api.data = LoadedWithoutMirrors(api.identifier)
            /\ api.found = (FindLatestIn(api.identifier, dirs, files) # NoFile)

C33_Witness ==
    /\ api.op = "load"
    /\ api.found
    /\ Fields(api.data) = LastSaved.state
    /\ \E f \in LastSnapshot : f.dir = api.identifier /\ MirrorsNamed(f) = {}
    /\ \E m \in mirrors : m.dir = api.identifier

\* the numeric suffixes of the custom_N directories
Suffixes(directories) == {d.n : d \in {e \in directories : e.kind = "custom"}}

\* no custom_N directory holds a snapshot of the input file, and its name
\* and text give no arXiv ID
NoFallbackFor(paper_path, directories, json_files) ==
    /\ extract_arxiv_id_from_filename(paper_path) = NoId
    /\ extract_arxiv_id_from_content(ParsePdf(paper_path)) = NoId
    /\ ~\E f \in json_files :
            /\ f.dir \in directories
            /\ f.dir.kind = "custom"
            /\ f.complete
            /\ Abspath(f.data.paper_path) = Abspath(paper_path)

\* C34: Fallback allocation: a call of the resolver (by a lookup or by a
\* save) for an input without arXiv ID, made when no custom_N directory
\* holds a snapshot of it, returns custom_<max existing suffix + 1>, or
\* custom_1 when there is no custom_N directory, and never the name of a
\* directory that exists.
C34_FallbackAllocation ==
    [][(api'.op \in {"resolve", "save"} /\ NoFallbackFor(api'.path, dirs, files))
        => /\ api'.identifier.kind = "custom"
           /\ api'.identifier \notin dirs
           /\ \A n \in Suffixes(dirs) : n < api'.identifier.n
           /\ api'.identifier.n = 1 \/ api'.identifier.n - 1 \in Suffixes(dirs)
           /\ Suffixes(dirs) = {} => api'.identifier = CustomId(1)]_vars

C34_Witness ==
    /\ api.op = "save"
    /\ api.identifier = CustomId(2)
    /\ api.previous = NoId
    /\ CustomId(1) \in dirs
    /\ \A f \in files : f.dir = CustomId(2) => f.mtime = clock /\ Abspath(f.data.paper_path) = Abspath(api.path)

\* C35: One notion of 'completed': for every snapshot the pipeline has
\* written, the completed flag that cleanup_checkpoints and
\* get_checkpoint_stats derive agrees with the is_completed flag of
\* list_checkpoints, which is true only for a snapshot with a final report.
C35_OneNotionOfCompleted ==
    \A f \in files : is_completed(f) = ListEntry(f).is_completed

\* C36: Each stage runs at most once per resumed run: within one call of
\* resume_workflow, whichever branch it takes, no stage (structure
\* analysis, selection, answer of item i, verification of item i,
\* integration) is handed to the executor a second time.
C36_StageOncePerResume ==
    Resumed =>
        \A i, j \in 1..Len(calls) :
            i < j => ~(/\ calls[i].stage = calls[j].stage
                       /\ calls[i].question_id = calls[j].question_id)

\* the snapshot `later` is not behind the snapshot `earlier`
NotBehind(earlier, later) ==
    /\ later.current_question_id >= earlier.current_question_id
    /\ earlier.paper_structure # "" => later.paper_structure # ""
    /\ earlier.selected_questions # << >> => later.selected_questions # << >>
    /\ earlier.final_report # "" => later.final_report # ""

\* C37: Progress never regresses within a run: of two snapshots written
\* during one run (fresh or resumed, the one of the failure path included)
\* the later one has a cursor that is not smaller, and has the structure,
\* the selected questions and the final report if the earlier one has them.
C37_ProgressNeverRegresses ==
    \A i, j \in 1..Len(history) :
        i < j => NotBehind(history[i].state, history[j].state)

\* C38: Cursor stays in range: whenever answer_question or verify_answer
\* is the node that runs, in a fresh or a resumed run, the cursor is between
\* 1 and total_questions and not above the number of selected questions, so
\* that selected_questions[current_question_id - 1] is defined, also when
\* the selection returned fewer than total_questions questions.
C38_CursorInRange ==
    (mode \in RunningModes /\ node \in {"answer_question", "verify_answer"}) =>
        /\ 1 <= graph_state.current_question_id
        /\ graph_state.current_question_id <= graph_state.total_questions
        /\ graph_state.current_question_id <= Len(graph_state.selected_questions)

\* C39: Cleanup preserves identity: for every input file, with or without
\* its text, get_paper_identifier returns after a cleanup what it returned
\* before it, also when the cleanup deleted every snapshot of a custom_N
\* directory.
C39_CleanupPreservesIdentity ==
    api.op = "cleanup" =>
        \A paper_path \in subjects :
            \A paper_content \in {NoContent, ParsePdf(paper_path)} :
                get_paper_identifier(paper_path, paper_content, dirs, files)
                    = get_paper_identifier(paper_path, paper_content, dirs, api.before)

====
